---------------------------- MODULE Spec2Model ----------------------------
(***************************************************************************)
(* Model of the flare-finding pipeline of appaloosa                        *)
(* (src/appaloosa/appaloosa.py): the run-length detector FINDflare, the    *)
(* candidate finder MultiFind, the event characterizer FlareStats and the  *)
(* completeness thresholds RunLC derives from FakeFlares.                  *)
(*                                                                         *)
(* numpy arrays are functions over 0..n-1, so that every index below is    *)
(* the index the Python code uses.  Index lists returned by np.where are   *)
(* ascending sequences.                                                    *)
(***************************************************************************)
EXTENDS Integers, Sequences, FiniteSets, TLC

VARIABLES
    pc,         \* "call" before the modelled function runs, then how it ended
    cindx,      \* FINDflare: the per-sample pass(1)/fail(0) array, line 495-496
    N3,         \* FINDflare: required number of consecutive points
    istart_i,   \* FINDflare: returned start indices
    istop_i,    \* FINDflare: returned stop indices
    time,       \* MultiFind: sample times of the segment, strictly increasing
    flags,      \* MultiFind: quality flag of every sample
    gapwindow,  \* MultiFind: time around the segment ends to ignore
    minsep,     \* MultiFind: datapoints required between events
    cand0,      \* MultiFind: candidate samples before the edge cut, line 819
    cand1,      \* MultiFind: candidate samples left after the edge cut, line 824
    istart,     \* MultiFind: returned start indices
    istop,      \* MultiFind: returned stop indices
    cand,       \* FlareStats: the arguments istart, istop and cpoly
    fit,        \* FlareStats: what scipy's curve_fit does when it is called
    fs,         \* FlareStats: its local variables and the returned params
    ed_fake,    \* FakeFlares: equivalent duration of every synthetic flare
    rec_fake,   \* FakeFlares: 1 for every recovered synthetic flare
    hist,       \* FakeFlares: rec_bin_N, rec_bin_D and ed_bin_center
    frac_rec,   \* RunLC: frac_rec[rl], the recovered fraction of the finite bins
    frac_rec_sm,\* RunLC: the smoothed recovered fraction of the finite bins
    ed68_i,     \* RunLC: the 68% completeness threshold of the segment
    ed90_i,     \* RunLC: the 90% completeness threshold of the segment
    dofake,     \* RunLC: is the completeness of every segment estimated
    dl,         \* RunLC: first index of every segment (detrend.FindGaps)
    dr,         \* RunLC: index after the last sample of every segment
    seg,        \* RunLC: the loop index i, the number of segments processed
    seg_ed,     \* RunLC: <<ed68_i, ed90_i>> of every segment processed so far
    ed68,       \* RunLC: the 68% threshold attached to every event
    ed90,       \* RunLC: the 90% threshold attached to every event
    real_call,  \* RunLC: the configuration of its last call of MultiFind
    fake_call,  \* RunLC: the configuration of the last call by FakeFlares
    dfout,      \* RunLC: the rows of the flare table, one per event
    reads,      \* RunLC: the samples FlareStats used for every row of dfout
    outfile,    \* FakeFlares: the rows of the completeness table on disk
    nfake,      \* FakeFlares: the number of synthetic flares to inject
    known,      \* FakeFlares: tstart and tstop, the times of the known candidates
    t0_fake,    \* FakeFlares: the accepted peak times, in drawing order
    rng,        \* np.random: the state of the global generator, per light curve
    curve,      \* two light curves, each the sequence of its segments
    res,        \* RunLC: the per-segment results, per light curve
    flux,       \* FINDflare: the array searched
    error,      \* FINDflare: the errors of flux
    N1,         \* FINDflare: how many sigma a sample must be above the median
    N2,         \* FINDflare: the same, less the error of the sample
    avg_std,    \* FINDflare: sigma from the rolling standard deviation
    med_i,      \* FINDflare: twice np.nanmedian(flux)
    sig_i,      \* FINDflare: sigma, as the variances it is the root of
    good,       \* FlagCuts: the indices returned with returngood=True
    readfile,   \* GetLCdb: readfile, and whether the file is in the working dir
    isok,       \* GetLCdb: the flag that ends the retrieval loop
    ntry,       \* GetLCdb: the attempts counted
    data        \* GetLCdb: the number of rows of the light curve held

vars == <<pc, cindx, N3, istart_i, istop_i,
          time, flags, gapwindow, minsep, cand0, cand1, istart, istop,
          cand, fit, fs,
          ed_fake, rec_fake, hist, frac_rec, frac_rec_sm, ed68_i, ed90_i,
          dofake, dl, dr, seg, seg_ed, ed68, ed90, real_call, fake_call, dfout,
          reads, outfile, nfake, known, t0_fake, rng, curve, res,
          flux, error, N1, N2, avg_std, med_i, sig_i, good,
          readfile, isok, ntry, data>>

ffVars == <<cindx, N3, istart_i, istop_i>>

mfVars == <<time, flags, gapwindow, minsep, cand0, cand1, istart, istop>>

fsVars == <<cand, fit, fs>>

ccVars == <<ed_fake, rec_fake, hist, frac_rec, frac_rec_sm, ed68_i, ed90_i>>

rlVars == <<dofake, dl, dr, seg, seg_ed, ed68, ed90, real_call, fake_call, dfout,
          reads, outfile>>

fkVars == <<nfake, known, t0_fake>>

twVars == <<rng, curve, res>>

ptVars == <<flux, error, N1, N2, avg_std, med_i, sig_i>>

fcVars == <<good>>

dbVars == <<readfile, isok, ntry, data>>

-----------------------------------------------------------------------------
(* Bounds *)

\* longest flux array given to FINDflare on its own
MaxFlux == 13

\* values of N3 tried
N3Values == 1..4

\* longest segment given to MultiFind
MaxSeg == 6

\* quality flags tried: no bit set, and bit 128 set
FlagValues == {0, 128}

\* values of gapwindow tried, in the unit of time
GapWindows == {0, 2, 3}

\* values of minsep tried
MinsepValues == 0..3

\* longest array given to FlareStats
MaxLC == 7

\* steps between consecutive sample times tried for FlareStats
TimeSteps == {1, 2}

\* values of cpoly tried
CpolyValues == {2, 3}

\* template parameters (t_peak, FWHM, amplitude) a converged fit may return
FittedValues == {<<1, 1, 1>>, <<3, 2, 5>>}

\* largest number of synthetic flares (nfake) injected in a segment
MaxFake == 4

\* largest equivalent duration of a synthetic flare, in whole units
MaxED == 4

-----------------------------------------------------------------------------
(* numpy helpers *)

\* len(a) of an array
Size(a) == Cardinality(DOMAIN a)

\* all arrays of length n over S
Arrays(n, S) == [0..(n-1) -> S]

Abs(x) == IF x < 0 THEN -x ELSE x

Min(S) == CHOOSE x \in S : \A y \in S : x <= y

Max(S) == CHOOSE x \in S : \A y \in S : x >= y

RECURSIVE Ascending(_)
\* the elements of a set of integers as an ascending sequence (np.where(...)[0])
Ascending(S) == IF S = {} THEN <<>> ELSE <<Min(S)>> \o Ascending(S \ {Min(S)})

\* the set of elements of a sequence
Range(s) == {s[k] : k \in 1..Len(s)}

-----------------------------------------------------------------------------
(* FINDflare, lines 498-522 *)

RECURSIVE ConMAt(_, _)
\* ConM[i] after the loop "for k in range(2, len(flux))": the loop writes
\* ConM[-k] for k = 2..len-1, that is the indices len-2 down to 1; ConM[0] and
\* ConM[len-1] keep the 0 of np.zeros_like.
ConMAt(c, i) ==
    IF i < 1 \/ i > Size(c) - 2
    THEN 0
    ELSE c[i] * (ConMAt(c, i + 1) + c[i])

ConM(c) == [i \in DOMAIN c |-> ConMAt(c, i)]

\* istart_i = np.where((ConM[1:] >= N3) & (ConM[0:-1] - ConM[1:] < 0))[0] + 1
FlareStarts(c, n3) ==
    LET C == ConM(c)
    IN  Ascending({j \in 1..(Size(c) - 1) : C[j] >= n3 /\ C[j - 1] - C[j] < 0})

\* the stop taken one sample after the counted run
FlareStopsOneMore(c, n3) ==
    LET C == ConM(c)
        s == FlareStarts(c, n3)
    IN  [k \in 1..Len(s) |-> s[k] + C[s[k]]]

\* istop_i = istart_i + (ConM[istart_i] - 1)
FlareStops(c, n3) ==
    LET C == ConM(c)
        s == FlareStarts(c, n3)
    IN  [k \in 1..Len(s) |-> s[k] + (C[s[k]] - 1)]

\* returnbinary=True: bin_out[istart_i[k]:istop_i[k]+1] = 1 for the returned
\* starts s and stops e
BinOut(c, s, e) ==
    [i \in DOMAIN c |->
        IF \E k \in 1..Len(s) : s[k] <= i /\ i < e[k] + 1 THEN 1 ELSE 0]

FFIdle ==
    /\ cindx = <<>>
    /\ N3 = 0
    /\ istart_i = <<>>
    /\ istop_i = <<>>

MFIdle ==
    /\ time = <<>>
    /\ flags = <<>>
    /\ gapwindow = 0
    /\ minsep = 0
    /\ cand0 = <<>>
    /\ cand1 = <<>>
    /\ istart = <<>>
    /\ istop = <<>>

FSIdle ==
    /\ cand = <<>>
    /\ fit = <<>>
    /\ fs = <<>>

CCIdle ==
    /\ ed_fake = <<>>
    /\ rec_fake = <<>>
    /\ hist = <<>>
    /\ frac_rec = <<>>
    /\ frac_rec_sm = <<>>
    /\ ed68_i = 0
    /\ ed90_i = 0

RLIdle ==
    /\ dofake = FALSE
    /\ dl = <<>>
    /\ dr = <<>>
    /\ seg = 0
    /\ seg_ed = <<>>
    /\ ed68 = <<>>
    /\ ed90 = <<>>
    /\ real_call = <<>>
    /\ fake_call = <<>>
    /\ dfout = <<>>
    /\ reads = <<>>
    /\ outfile = <<>>

FKIdle ==
    /\ nfake = 0
    /\ known = <<>>
    /\ t0_fake = <<>>

TWIdle ==
    /\ rng = <<>>
    /\ curve = <<>>
    /\ res = <<>>

PTIdle ==
    /\ flux = <<>>
    /\ error = <<>>
    /\ N1 = 0
    /\ N2 = 0
    /\ avg_std = FALSE
    /\ med_i = 0
    /\ sig_i = <<>>

FCIdle ==
    /\ good = <<>>

DBIdle ==
    /\ readfile = <<>>
    /\ isok = 0
    /\ ntry = 0
    /\ data = 0

InitFINDflare ==
    /\ pc = "call"
    /\ MFIdle
    /\ FSIdle
    /\ CCIdle
    /\ RLIdle
    /\ FKIdle
    /\ TWIdle
    /\ PTIdle
    /\ FCIdle
    /\ DBIdle
    /\ \E n \in 0..MaxFlux : cindx \in Arrays(n, {0, 1})
    /\ N3 \in N3Values
    /\ istart_i = <<>>
    /\ istop_i = <<>>

FINDflare ==
    /\ pc = "call"
    /\ istart_i' = FlareStarts(cindx, N3)
    /\ istop_i' = FlareStops(cindx, N3)
    /\ pc' = "done"
    /\ UNCHANGED <<cindx, N3>>
    /\ UNCHANGED mfVars
    /\ UNCHANGED fsVars
    /\ UNCHANGED ccVars
    /\ UNCHANGED rlVars
    /\ UNCHANGED fkVars
    /\ UNCHANGED twVars
    /\ UNCHANGED ptVars
    /\ UNCHANGED fcVars
    /\ UNCHANGED dbVars

NextFINDflare == FINDflare

SpecFINDflare == InitFINDflare /\ [][NextFINDflare]_vars

-----------------------------------------------------------------------------
(* FINDflare: the per-sample test, lines 468-496 *)

\* longest array given to the test
MaxTest == 8

\* std_window, line 424
std_window == 7

\* the flux values, the error arrays and the thresholds tried
TestFlux == {0, 2, 5}

TestErrors(n) ==
    {[i \in 0..(n - 1) |-> e] : e \in {0, 1}} \cup {[i \in 0..(n - 1) |-> i % 2]}

TestN == {1, 3}

\* the k-th smallest of the values of x, k from 1
Kth(x, k) ==
    CHOOSE v \in {x[i] : i \in DOMAIN x} :
        /\ Cardinality({i \in DOMAIN x : x[i] < v}) < k
        /\ Cardinality({i \in DOMAIN x : x[i] <= v}) >= k

\* twice the median of the values of x (np.nanmedian of an array without
\* NaN: the middle value, or the mean of the two middle values)
Median2(x) ==
    LET n == Size(x)
    IN  IF n % 2 = 1 THEN 2 * Kth(x, (n + 1) \div 2)
        ELSE Kth(x, n \div 2) + Kth(x, n \div 2 + 1)

RECURSIVE SumOver(_, _, _)
\* x[lo] + ... + x[hi]
SumOver(x, lo, hi) == IF hi < lo THEN 0 ELSE x[hi] + SumOver(x, lo, hi - 1)

\* n times the sum of the squared deviations from the mean of x[lo..hi]
Deviations(x, lo, hi) ==
    LET n == hi - lo + 1
    IN  n * SumOver([i \in DOMAIN x |-> x[i] * x[i]], lo, hi)
          - SumOver(x, lo, hi) * SumOver(x, lo, hi)

\* a standard deviation the test cannot be made with: NaN
NoSigma == [nan |-> TRUE, v1 |-> 0, v2 |-> 0, den |-> 1]

\* the standard deviation (sqrt(v1/den) + sqrt(v2/den)) / 2
Sigma(v1, v2, den) == [nan |-> FALSE, v1 |-> v1, v2 |-> v2, den |-> den]

\* line 474, np.nanstd(flux): the root of the mean squared deviation
NanStd(x) ==
    LET n == Size(x)
    IN  IF n = 0 THEN NoSigma
        ELSE Sigma(Deviations(x, 0, n - 1), Deviations(x, 0, n - 1), n * n)

\* line 478, np.nanmedian(pd.Series(flux).rolling(std_window,
\* center=True).std()): the median of the standard deviations (with n - 1 in
\* the denominator) of the full windows; NaN when there is no full window
RollingStd(x) ==
    LET n == Size(x)
        h == std_window \div 2
        w == [j \in h..(n - 1 - h) |-> Deviations(x, j - h, j + h)]
        m == n - 2 * h
    IN  IF m < 1 THEN NoSigma
        ELSE IF m % 2 = 1
        THEN Sigma(Kth(w, (m + 1) \div 2), Kth(w, (m + 1) \div 2),
                   std_window * (std_window - 1))
        ELSE Sigma(Kth(w, m \div 2), Kth(w, m \div 2 + 1),
                   std_window * (std_window - 1))

\* a comparison that also holds on equality
ExceedsOrEquals(a2, sg, k) ==
    LET l == a2 * a2 * sg.den - k * k * (sg.v1 + sg.v2)
    IN  /\ ~sg.nan
        /\ l >= 0
        /\ l * l >= 4 * k * k * k * k * sg.v1 * sg.v2

\* a / sigma > k for a = a2 / 2 >= 0 and k >= 0, as the floating-point
\* division decides it: x / 0 is inf, 0 / 0 and anything with NaN is NaN,
\* and a comparison with NaN is False
Exceeds(a2, sg, k) ==
    LET l == a2 * a2 * sg.den - k * k * (sg.v1 + sg.v2)
    IN  /\ ~sg.nan
        /\ l > 0
        /\ l * l > 4 * k * k * k * k * sg.v1 * sg.v2

\* lines 480-496: cindx, 1 where (ca > 0) & (cb > N1) & (cc > N2)
PerSample(x, err, md2, sg, n1, n2) ==
    [i \in DOMAIN x |->
        IF /\ 2 * x[i] - md2 > 0
           /\ Exceeds(Abs(2 * x[i] - md2), sg, n1)
           /\ Exceeds(Abs(2 * x[i] - md2 - 2 * err[i]), sg, n2)
        THEN 1 ELSE 0]

InitPerSample ==
    /\ pc = "call"
    /\ \E n \in 0..MaxTest :
          /\ flux \in Arrays(n, TestFlux)
          /\ error \in TestErrors(n)
    /\ N1 \in TestN
    /\ N2 \in TestN
    /\ avg_std \in BOOLEAN
    /\ med_i = 0
    /\ sig_i = <<>>
    /\ cindx = <<>>
    /\ N3 = 0
    /\ istart_i = <<>>
    /\ istop_i = <<>>
    /\ MFIdle
    /\ FSIdle
    /\ CCIdle
    /\ RLIdle
    /\ FKIdle
    /\ TWIdle
    /\ FCIdle
    /\ DBIdle

\* FINDflare up to line 496
PerSampleTest ==
    /\ pc = "call"
    /\ med_i' = IF Size(flux) = 0 THEN 0 ELSE Median2(flux)
    /\ sig_i' = IF avg_std THEN RollingStd(flux) ELSE NanStd(flux)
    /\ cindx' = PerSample(flux, error, med_i', sig_i', N1, N2)
    /\ pc' = "tested"
    /\ UNCHANGED <<flux, error, N1, N2, avg_std>>
    /\ UNCHANGED <<N3, istart_i, istop_i>>
    /\ UNCHANGED mfVars
    /\ UNCHANGED fsVars
    /\ UNCHANGED ccVars
    /\ UNCHANGED rlVars
    /\ UNCHANGED fkVars
    /\ UNCHANGED twVars
    /\ UNCHANGED fcVars
    /\ UNCHANGED dbVars

NextPerSample == PerSampleTest

SpecPerSample == InitPerSample /\ [][NextPerSample]_vars

-----------------------------------------------------------------------------
(* C1 *)

\* the maximal runs of consecutive flagged samples of length >= n3
MaximalRuns(c, n3) ==
    {r \in (DOMAIN c) \X (DOMAIN c) :
        /\ r[1] <= r[2]
        /\ \A i \in r[1]..r[2] : c[i] = 1
        /\ (r[1] = 0 \/ c[r[1] - 1] = 0)
        /\ (r[2] = Size(c) - 1 \/ c[r[2] + 1] = 0)
        /\ r[2] - r[1] + 1 >= n3}

ReturnedPairs == {<<istart_i[k], istop_i[k]>> : k \in 1..Len(istart_i)}

ExampleFlags ==
    [i \in 0..12 |-> <<0, 1, 1, 1, 0, 1, 1, 0, 0, 1, 1, 1, 1>>[i + 1]]

\* C1: for every flag sequence and every N3 >= 1 the pairs FINDflare returns
\* are exactly the maximal runs of flagged samples of length >= N3 (runs at
\* the first or the last sample included); the flags
\* [0,1,1,1,0,1,1,0,0,1,1,1,1] with N3 = 3 give exactly [1,3] and [9,12].
C1_ExactMaximalRuns ==
    pc = "done" =>
        /\ Len(istart_i) = Len(istop_i)
        /\ ReturnedPairs = MaximalRuns(cindx, N3)
        /\ (cindx = ExampleFlags /\ N3 = 3 =>
                istart_i = <<1, 9>> /\ istop_i = <<3, 12>>)

-----------------------------------------------------------------------------
(* GetLCdb, lines 45-134 *)

\* most rows an answer of the database has
MaxRows == 100

\* the answer counted as an actual light curve only above 99 rows
SensibleOver99(n) == n > 99

\* line 113, "if len(data[:,0] > 99)": the length of the array of booleans
\* is the number of rows, true when there is any
Sensible(n) == n > 0

InitGetLCdb ==
    /\ pc = "call"
    /\ readfile \in [readfile : BOOLEAN, isfile : BOOLEAN]
    /\ isok = 0
    /\ ntry = 0
    /\ data = 0
    /\ good = <<>>
    /\ FFIdle
    /\ MFIdle
    /\ FSIdle
    /\ CCIdle
    /\ RLIdle
    /\ FKIdle
    /\ TWIdle
    /\ PTIdle

\* lines 77-81: the light curve is read from the file when it is there
GetLCdbReadFile ==
    /\ pc = "call"
    /\ pc' = "loop"
    /\ IF readfile.readfile /\ readfile.isfile
       THEN \E n \in 0..MaxRows : data' = n /\ isok' = 101
       ELSE UNCHANGED <<data, isok>>
    /\ UNCHANGED <<readfile, ntry, good>>
    /\ UNCHANGED ffVars
    /\ UNCHANGED mfVars
    /\ UNCHANGED fsVars
    /\ UNCHANGED ccVars
    /\ UNCHANGED rlVars
    /\ UNCHANGED fkVars
    /\ UNCHANGED twVars
    /\ UNCHANGED ptVars

\* one pass of "while isok<1", lines 84-119: the database answers with n
\* rows; np.asarray of no rows has one dimension and data[:,0] raises
GetLCdbAttempt ==
    /\ pc = "loop"
    /\ isok < 1
    /\ \E n \in 0..MaxRows :
          /\ data' = n
          /\ IF n = 0
             THEN /\ pc' = "IndexError"
                  /\ UNCHANGED <<isok, ntry>>
             ELSE /\ isok' = IF ntry > 9 THEN 2
                             ELSE IF Sensible(n) THEN 10 ELSE isok
                  /\ ntry' = ntry + 1
                  /\ pc' = "loop"
    /\ UNCHANGED <<readfile, good>>
    /\ UNCHANGED ffVars
    /\ UNCHANGED mfVars
    /\ UNCHANGED fsVars
    /\ UNCHANGED ccVars
    /\ UNCHANGED rlVars
    /\ UNCHANGED fkVars
    /\ UNCHANGED twVars
    /\ UNCHANGED ptVars

\* the loop is left and data returned, lines 121-130
GetLCdbReturn ==
    /\ pc = "loop"
    /\ ~(isok < 1)
    /\ pc' = "done"
    /\ UNCHANGED <<readfile, isok, ntry, data, good>>
    /\ UNCHANGED ffVars
    /\ UNCHANGED mfVars
    /\ UNCHANGED fsVars
    /\ UNCHANGED ccVars
    /\ UNCHANGED rlVars
    /\ UNCHANGED fkVars
    /\ UNCHANGED twVars
    /\ UNCHANGED ptVars

NextGetLCdb == GetLCdbReadFile \/ GetLCdbAttempt \/ GetLCdbReturn

\* the function runs on: single-threaded, every step it can take is taken
SpecGetLCdb == InitGetLCdb /\ [][NextGetLCdb]_vars /\ WF_vars(NextGetLCdb)

-----------------------------------------------------------------------------
(* FlagCuts, lines 525-551 *)

RECURSIVE BitwiseAnd(_, _)
\* np.bitwise_and of two non-negative integers
BitwiseAnd(a, b) ==
    IF a = 0 \/ b = 0
    THEN 0
    ELSE (a % 2) * (b % 2) + 2 * BitwiseAnd(a \div 2, b \div 2)

\* the bad flags without the last
bad_flags_two == <<16, 128>>

\* bad_flags = (16, 128, 2048)
bad_flags == <<16, 128, 2048>>

RECURSIVE SumAnd(_, _)
\* the loop "for k in bad_flags: bad = bad + np.bitwise_and(flags_int, k)"
SumAnd(f, k) ==
    IF k = 0 THEN 0 ELSE SumAnd(f, k - 1) + BitwiseAnd(f, bad_flags[k])

\* FlagCuts(flags, returngood=False)
FlagCutsBad(fl) == [i \in DOMAIN fl |-> SumAnd(fl[i], Len(bad_flags))]

\* FlagCuts(flags), returngood=True: good = np.where(bad < 1)[0]
FlagCutsGood(fl) ==
    LET bad == FlagCutsBad(fl)
    IN  Ascending({i \in DOMAIN fl : bad[i] < 1})

\* longest flag array given to FlagCuts
MaxFlags == 2

\* the bits a quality flag is made of in the arrays tried
FlagBits == {1, 16, 32, 128, 2048, 4096}

RECURSIVE SumOfSet(_)
SumOfSet(S) == IF S = {} THEN 0 ELSE LET x == Min(S) IN x + SumOfSet(S \ {x})

InitFlagCuts ==
    /\ pc = "call"
    /\ \E n \in 0..MaxFlags :
          flags \in Arrays(n, {SumOfSet(B) : B \in SUBSET FlagBits})
    /\ good = <<>>
    /\ time = <<>>
    /\ gapwindow = 0
    /\ minsep = 0
    /\ cand0 = <<>>
    /\ cand1 = <<>>
    /\ istart = <<>>
    /\ istop = <<>>
    /\ FFIdle
    /\ FSIdle
    /\ CCIdle
    /\ RLIdle
    /\ FKIdle
    /\ TWIdle
    /\ PTIdle
    /\ DBIdle

\* FlagCuts with the default bad_flags and returngood
FlagCuts ==
    /\ pc = "call"
    /\ good' = FlagCutsGood(flags)
    /\ pc' = "done"
    /\ UNCHANGED ffVars
    /\ UNCHANGED mfVars
    /\ UNCHANGED fsVars
    /\ UNCHANGED ccVars
    /\ UNCHANGED rlVars
    /\ UNCHANGED fkVars
    /\ UNCHANGED twVars
    /\ UNCHANGED ptVars
    /\ UNCHANGED dbVars

NextFlagCuts == FlagCuts

SpecFlagCuts == InitFlagCuts /\ [][NextFlagCuts]_vars

-----------------------------------------------------------------------------
(* MultiFind, lines 813-851 *)

\* N3=3 of the call of FINDflare at line 814
MultiFindN3 == 3

\* a[-1]
Last(a) == a[Size(a) - 1]

\* does np.delete(s, X) raise IndexError (an index past the end)?
DeleteRaises(s, X) == \E p \in X : p > Len(s)

RECURSIVE Keep(_, _, _)
Keep(s, X, p) ==
    IF p > Len(s) THEN <<>>
    ELSE (IF p \in X THEN <<>> ELSE <<s[p]>>) \o Keep(s, X, p + 1)

\* np.delete(s, X)
Delete(s, X) == Keep(s, X, 1)

\* cand1 = np.where((bad < 1) & (isflare > 0))[0], line 819
Candidates(fl, isflare) ==
    LET bad == FlagCutsBad(fl)
    IN  Ascending({i \in DOMAIN fl : bad[i] < 1 /\ isflare[i] > 0})

\* x1 = np.where(np.abs(time[cand1] - time[-1]) < gapwindow), line 821, as
\* positions of cand1 (positions count from 1 here)
NearEnd(t, c, gw) == {p \in 1..Len(c) : Abs(t[c[p]] - Last(t)) < gw}

\* x2 = np.where(np.abs(time[cand1] - time[0]) < gapwindow), line 822
NearStart(t, c, gw) == {p \in 1..Len(c) : Abs(t[c[p]] - t[0]) < gw}

\* a break wherever the difference is minsep or more
BreaksAtLeast(c, ms) == {p \in 1..(Len(c) - 1) : c[p + 1] - c[p] >= ms}

\* np.where(cand1[1:] - cand1[:-1] > minsep)[0], as positions of cand1[:-1]
Breaks(c, ms) == {p \in 1..(Len(c) - 1) : c[p + 1] - c[p] > ms}

\* istart = cand1[np.append([0], breaks + 1)], line 832
MergedStarts(c, ms) ==
    IF Len(c) < 1 THEN <<>>
    ELSE LET at == Ascending({1} \cup {p + 1 : p \in Breaks(c, ms)})
         IN  [k \in 1..Len(at) |-> c[at[k]]]

\* istop = cand1[np.append(breaks, [len(cand1)-1])], line 833
MergedStops(c, ms) ==
    IF Len(c) < 1 THEN <<>>
    ELSE LET at == Ascending(Breaks(c, ms) \cup {Len(c)})
         IN  [k \in 1..Len(at) |-> c[at[k]]]

\* the stops left as the merge set them
ExtendSingleNot(s, e) == e

\* to1 = np.where(istart - istop == 0); istop[to1] += 1, lines 836-838
ExtendSingle(s, e) ==
    [k \in 1..Len(e) |-> IF s[k] - e[k] = 0 THEN e[k] + 1 ELSE e[k]]

\* strictly increasing sample times: one tick per sample, with one longer
\* step in front of sample g when g > 0
TimeArray(n, g) == [i \in 0..(n - 1) |-> i + (IF g > 0 /\ i >= g THEN 1 ELSE 0)]

InitMultiFind ==
    /\ pc = "call"
    /\ \E n \in 1..MaxSeg :
          /\ cindx \in Arrays(n, {0, 1})
          /\ flags \in Arrays(n, FlagValues)
          /\ \E g \in {0, n \div 2} : time = TimeArray(n, g)
    /\ N3 = MultiFindN3
    /\ istart_i = <<>>
    /\ istop_i = <<>>
    /\ gapwindow \in GapWindows
    /\ minsep \in MinsepValues
    /\ cand0 = <<>>
    /\ cand1 = <<>>
    /\ istart = <<>>
    /\ istop = <<>>
    /\ FSIdle
    /\ CCIdle
    /\ RLIdle
    /\ FKIdle
    /\ TWIdle
    /\ PTIdle
    /\ FCIdle
    /\ DBIdle

\* the whole of MultiFind after the detrending: the per-sample test on the
\* residual is cindx.  x1 and x2 are both computed from the candidates of line
\* 819, and x2 is then applied to the array x1 was already deleted from.
MultiFind ==
    /\ pc = "call"
    /\ istart_i' = FlareStarts(cindx, N3)
    /\ istop_i' = FlareStops(cindx, N3)
    /\ cand0' = Candidates(flags, BinOut(cindx, istart_i', istop_i'))
    /\ LET c1 == Delete(cand0', NearEnd(time, cand0', gapwindow))
           x2 == NearStart(time, cand0', gapwindow)
       IN  IF DeleteRaises(c1, x2)
           THEN /\ pc' = "IndexError"
                /\ cand1' = c1
                /\ UNCHANGED <<istart, istop>>
           ELSE /\ pc' = "done"
                /\ cand1' = Delete(c1, x2)
                /\ istart' = MergedStarts(cand1', minsep)
                /\ istop' = ExtendSingle(istart', MergedStops(cand1', minsep))
    /\ UNCHANGED <<cindx, N3, time, flags, gapwindow, minsep>>
    /\ UNCHANGED fsVars
    /\ UNCHANGED ccVars
    /\ UNCHANGED rlVars
    /\ UNCHANGED fkVars
    /\ UNCHANGED twVars
    /\ UNCHANGED ptVars
    /\ UNCHANGED fcVars
    /\ UNCHANGED dbVars

NextMultiFind == MultiFind

SpecMultiFind == InitMultiFind /\ [][NextMultiFind]_vars

Spec == SpecMultiFind

-----------------------------------------------------------------------------
(* FlareStats, lines 570-696 *)

\* is a[i] inside an array of length n (Python accepts -n..n-1)
IndexOK(n, i) == -n <= i /\ i <= n - 1

\* a[i], a negative i counting from the end
At(a, i) == IF i < 0 THEN a[i + Size(a)] ELSE a[i]

\* where a slice bound lands in an array of length n
SliceBound(n, i) ==
    IF i < 0 THEN (IF i + n < 0 THEN 0 ELSE i + n) ELSE (IF i > n THEN n ELSE i)

\* the indices of the slice a[lo:hi] of an array of length n
SliceIndices(n, lo, hi) ==
    LET from == SliceBound(n, lo)
        to   == SliceBound(n, hi)
    IN  [k \in 1..(IF to > from THEN to - from ELSE 0) |-> from + k - 1]

\* lines 593-594: if (istart < 0): istart = 0
DefaultStart(a) == IF a < 0 THEN 0 ELSE a

\* lines 595-596: if (istop < 0): istop = len(flux)-1
DefaultStop(b, n) == IF b < 0 THEN n - 1 ELSE b

\* lines 599-601: istart after "can't have flare start/stop at same point"
WidenedStart(a, b) == IF a = b THEN a - 1 ELSE a

\* lines 599-605: istop after both widening steps
WidenedStop(a, b) ==
    LET b1 == IF a = b THEN b + 1 ELSE b
    IN  IF b1 - WidenedStart(a, b) < 2 THEN b1 + 1 ELSE b1

\* lines 616-618: c1 = np.where((time >= tstart - dur0) & (time <= tstart - dur0/2.))
ContinuumBefore(t, tstart, dur0) ==
    Ascending({i \in DOMAIN t :
        t[i] >= tstart - dur0 /\ 2 * t[i] <= 2 * tstart - dur0})

\* lines 620-622: c2 = np.where((time >= tstop + dur0/2.) & (time <= tstop + dur0))
ContinuumAfter(t, tstop, dur0) ==
    Ascending({i \in DOMAIN t :
        2 * t[i] >= 2 * tstop + dur0 /\ t[i] <= tstop + dur0})

\* a fallback taken as soon as fewer than two continuum samples are found
NoContinuumBelowTwo(contindx) == Len(contindx) < 2

\* line 630: is the fallback continuum taken
NoContinuum(contindx) == Len(contindx) = 0

\* a float of the params array, or NaN
Num(x) == [tag |-> "num", val |-> x]

NaN == [tag |-> "nan", val |-> 0]

\* a value FlareStats measures from the flux inside the window a..b, with the
\* continuum fitted on the samples cont by a polynomial of degree deg
Measured(name, a, b, cont, deg) ==
    [tag |-> name, val |-> <<a, b, cont, deg>>]

\* both except clauses filling popt1 with NaN
TemplateFitOneSentinel(f) ==
    CASE f.outcome = "ok" ->
            <<Num(f.popt[1]), Num(f.popt[2]), Num(f.popt[3])>>
      [] f.outcome = "ValueError" -> <<NaN, NaN, NaN>>
      [] f.outcome = "RuntimeError" -> <<NaN, NaN, NaN>>

\* lines 657-666: popt1 after the try/except around curve_fit
TemplateFit(f) ==
    CASE f.outcome = "ok" ->
            <<Num(f.popt[1]), Num(f.popt[2]), Num(f.popt[3])>>
      [] f.outcome = "ValueError" -> <<NaN, NaN, NaN>>
      [] f.outcome = "RuntimeError" -> <<Num(-99), Num(-99), Num(-99)>>

\* lines 685-687: the params array
Params(tstart, tstop, a, b, cont, deg, popt1) ==
    << Num(tstart), Num(tstop),
       Measured("t_peak", a, b, cont, deg),
       Measured("amplitude", a, b, cont, deg),
       Measured("FWHM", a, b, cont, deg),
       Num(tstop - tstart),
       popt1[1], popt1[2], popt1[3],
       Measured("flare_chisq", a, b, cont, deg),
       Measured("KS_d_model", a, b, cont, deg),
       Measured("KS_p_model", a, b, cont, deg),
       Measured("KS_d_cont", a, b, cont, deg),
       Measured("KS_p_cont", a, b, cont, deg),
       Measured("Equiv_Dur", a, b, cont, deg) >>

\* the header with two of its names exchanged
HeaderSwapped ==
    << "t_start", "t_stop", "t_peak", "amplitude", "FWHM", "duration",
       "t_peak_aflare1", "t_FWHM_aflare1", "amplitude_aflare1",
       "flare_chisq", "KS_p_model", "KS_d_model", "KS_d_cont", "KS_p_cont",
       "Equiv_Dur" >>

\* lines 689-691: the header FlareStats returns with ReturnHeader=True
Header ==
    << "t_start", "t_stop", "t_peak", "amplitude", "FWHM", "duration",
       "t_peak_aflare1", "t_FWHM_aflare1", "amplitude_aflare1",
       "flare_chisq", "KS_d_model", "KS_p_model", "KS_d_cont", "KS_p_cont",
       "Equiv_Dur" >>

\* line 1275: header = header + ['ED68i', 'ED90i']
RunLCHeader == Header \o <<"ED68i", "ED90i">>

\* line 1284, dict(zip(header, _)): the names paired with the values up to
\* the shorter of the two, a name that comes twice keeping its last value
DictZip(names, values) ==
    LET m == IF Len(names) < Len(values) THEN Len(names) ELSE Len(values)
    IN  [nm \in {names[i] : i \in 1..m} |->
            values[Max({i \in 1..m : names[i] = nm})]]

\* the locals of FlareStats when it stops
Locals(a, b, flaretime, contindx, cpoly, fallback, popt1, params) ==
    [istart |-> a, istop |-> b, flaretime |-> flaretime,
     contindx |-> contindx, cpoly |-> cpoly, fallback |-> fallback,
     popt1 |-> popt1, params |-> params]

RECURSIVE TimeArrays(_)
\* the strictly increasing time arrays of length n that start at 0
TimeArrays(n) ==
    IF n = 1 THEN {[i \in 0..0 |-> 0]}
    ELSE {[i \in 0..(n - 1) |-> IF i < n - 1 THEN t[i] ELSE t[n - 2] + d] :
            t \in TimeArrays(n - 1), d \in TimeSteps}

InitFlareStats ==
    /\ pc = "call"
    /\ FFIdle
    /\ flags = <<>>
    /\ gapwindow = 0
    /\ minsep = 0
    /\ cand0 = <<>>
    /\ cand1 = <<>>
    /\ istart = <<>>
    /\ istop = <<>>
    /\ \E n \in 1..MaxLC :
          /\ time \in TimeArrays(n)
          /\ \E a \in -1..(n - 1) : \E b \in -1..(n - 1) : \E d \in CpolyValues :
                /\ (a = -1) = (b = -1)
                /\ a <= b
                /\ cand = [istart |-> a, istop |-> b, cpoly |-> d]
    /\ fit \in [outcome : {"ok"}, popt : FittedValues]
               \cup [outcome : {"ValueError", "RuntimeError"}, popt : {<<>>}]
    /\ fs = <<>>
    /\ CCIdle
    /\ RLIdle
    /\ FKIdle
    /\ TWIdle
    /\ PTIdle
    /\ FCIdle
    /\ DBIdle

\* the whole of FlareStats with the default c1 and c2; the exception that
\* escapes, if any, is the value of pc
FlareStats ==
    /\ pc = "call"
    /\ LET n  == Size(time)
           a0 == DefaultStart(cand.istart)
           b0 == DefaultStop(cand.istop, n)
           a  == WidenedStart(a0, b0)
           b  == WidenedStop(a0, b0)
       IN  IF ~IndexOK(n, a) \/ ~IndexOK(n, b)
           THEN \* tstart = time[istart]; tstop = time[istop], lines 609-610
                /\ pc' = "IndexError"
                /\ fs' = Locals(a, b, <<>>, <<>>, cand.cpoly, FALSE, <<>>, <<>>)
           ELSE LET tstart == At(time, a)
                    tstop  == At(time, b)
                    dur0   == tstop - tstart
                    flaretime == SliceIndices(n, a, b + 1)
                    c1c2   == ContinuumBefore(time, tstart, dur0)
                                \o ContinuumAfter(time, tstop, dur0)
                    fallback == NoContinuum(c1c2)
                    contindx == IF fallback THEN <<a, b>> ELSE c1c2
                    cpoly  == IF fallback THEN 1 ELSE cand.cpoly
                    popt1  == TemplateFit(fit)
                IN  IF Len(flaretime) = 0
                    THEN \* np.max of an empty array, line 642
                         /\ pc' = "ValueError"
                         /\ fs' = Locals(a, b, flaretime, contindx, cpoly,
                                         fallback, <<>>, <<>>)
                    ELSE IF Len(flaretime) < 3
                    THEN \* curve_fit: fewer data points than parameters,
                         \* a TypeError no except clause catches, line 658
                         /\ pc' = "TypeError"
                         /\ fs' = Locals(a, b, flaretime, contindx, cpoly,
                                         fallback, <<>>, <<>>)
                    ELSE /\ pc' = "done"
                         /\ fs' = Locals(a, b, flaretime, contindx, cpoly,
                                         fallback, popt1,
                                         Params(tstart, tstop, a, b, contindx,
                                                cpoly, popt1))
    /\ UNCHANGED <<cand, fit>>
    /\ UNCHANGED ffVars
    /\ UNCHANGED mfVars
    /\ UNCHANGED ccVars
    /\ UNCHANGED rlVars
    /\ UNCHANGED fkVars
    /\ UNCHANGED twVars
    /\ UNCHANGED ptVars
    /\ UNCHANGED fcVars
    /\ UNCHANGED dbVars

NextFlareStats == FlareStats

SpecFlareStats == InitFlareStats /\ [][NextFlareStats]_vars

-----------------------------------------------------------------------------
(* FakeFlares, lines 950-962, and the thresholds of RunLC, lines 1139-1153 *)

\* nbins = 20, line 953
nbins == 20

\* the "never reached" value of ed68_i and ed90_i, lines 1147 and 1153
NeverReached == -99

\* Equivalent durations are whole numbers here and bin centres are multiples
\* of 1/(2*nbins): a duration x is held as EDUnit * x.
EDUnit == 2 * nbins

\* twice the first edge np.histogram uses: the smallest value, or half a unit
\* below it when all values are equal
FirstEdge2(ed) ==
    LET lo == Min(Range(ed))
        hi == Max(Range(ed))
    IN  IF lo = hi THEN 2 * lo - 1 ELSE 2 * lo

\* the width of the range np.histogram splits in nbins equal bins
BinRange(ed) ==
    LET lo == Min(Range(ed))
        hi == Max(Range(ed))
    IN  IF lo = hi THEN 1 ELSE hi - lo

\* the bin of v when the last bin is half-open like the others
BinOfOpenLast(edge2, width, v) == ((2 * v - edge2) * nbins) \div (2 * width)

\* the bin (0..nbins-1) np.histogram puts the value v in, given twice the
\* first edge and the width of the range; the last bin is closed on the right
BinOf(edge2, width, v) ==
    LET i == ((2 * v - edge2) * nbins) \div (2 * width)
    IN  IF i >= nbins THEN nbins - 1 ELSE i

\* the bin of every synthetic flare
FlareBins(ed) ==
    LET edge2 == FirstEdge2(ed)
        width == BinRange(ed)
    IN  [k \in 1..Len(ed) |-> BinOf(edge2, width, ed[k])]

\* rec_bin_N: np.histogram(ed_fake, weights=rec_fake, bins=nbins), line 956
RecBinN(ed, rec) ==
    LET b == FlareBins(ed)
    IN  [i \in 0..(nbins - 1) |->
            Cardinality({k \in 1..Len(ed) : b[k] = i /\ rec[k] = 1})]

\* rec_bin_D: np.histogram(ed_fake, bins=nbins), line 958
RecBinD(ed) ==
    LET b == FlareBins(ed)
    IN  [i \in 0..(nbins - 1) |-> Cardinality({k \in 1..Len(ed) : b[k] = i})]

\* ed_bin_center = (ed_bin[1:] + ed_bin[:-1])/2., line 960, in EDUnit
EdBinCenter(ed) ==
    LET edge2 == FirstEdge2(ed)
        width == BinRange(ed)
    IN  [i \in 0..(nbins - 1) |-> nbins * edge2 + (2 * i + 1) * width]

\* the histograms FakeFlares builds
Histogram(ed, rec) ==
    [N |-> RecBinN(ed, rec), D |-> RecBinD(ed), center |-> EdBinCenter(ed)]

\* n / d of numpy for counts: <<n, d>>, NaN (<<0, 0>>) for 0/0 and inf
\* (<<1, 0>>) for n/0
Divide(n, d) == IF d # 0 THEN <<n, d>> ELSE IF n = 0 THEN <<0, 0>> ELSE <<1, 0>>

\* rec_bin = rec_bin_N / rec_bin_D, line 962
RecBin(h) == [i \in DOMAIN h.N |-> Divide(h.N[i], h.D[i])]

\* rl = np.isfinite(frac_rec): rec_bin = rec_bin_N / rec_bin_D is NaN exactly
\* in the empty bins; the finite bins in ascending order
FiniteBins(h) == Ascending({i \in 0..(nbins - 1) : h.D[i] > 0})

RECURSIVE Lcm(_, _)
\* the least common multiple of 1..n, found from the multiple m
Lcm(n, m) == IF \A d \in 1..n : m % d = 0 THEN m ELSE Lcm(n, m + 1)

\* a denominator every recovered fraction of nfake flares can be written with
FracUnit(n) == Lcm(n, 1)

RECURSIVE FractionsAt(_, _, _)
\* N/D of the bins listed in rl, every fraction held as the whole number N/D * q
FractionsAt(h, rl, q) ==
    IF rl = <<>> THEN <<>>
    ELSE <<(h.N[Head(rl)] * q) \div h.D[Head(rl)]>> \o FractionsAt(h, Tail(rl), q)

\* frac_rec[rl], lines 1139-1140
FiniteFractions(h, q) == FractionsAt(h, FiniteBins(h), q)

\* im[j] with the zero padding of correlate(..., 'same')
Padded(im, j) == IF j < 1 \/ j > Len(im) THEN 0 ELSE im[j]

\* 3 * lMean: the sum over the window of 3
WindowSum(im, j) == Padded(im, j - 1) + Padded(im, j) + Padded(im, j + 1)

WindowSquares(im, j) ==
    Padded(im, j - 1) * Padded(im, j - 1) + Padded(im, j) * Padded(im, j)
        + Padded(im, j + 1) * Padded(im, j + 1)

\* 9 * lVar = 9 * (sum of squares / 3 - lMean^2)
LocalVar9(im, j) ==
    3 * WindowSquares(im, j) - WindowSum(im, j) * WindowSum(im, j)

RECURSIVE SumVar9(_, _)
SumVar9(im, j) == IF j = 0 THEN 0 ELSE SumVar9(im, j - 1) + LocalVar9(im, j)

\* scipy.signal.wiener(im, 3) at position j, as the fraction <<num, den>> of
\* the unit q; <<0, 0>> is NaN.  With noise = mean(lVar):
\*   out = lMean                                   where lVar < noise
\*   out = (im - lMean) * (1 - noise/lVar) + lMean elsewhere (NaN when 0/0)
WienerAt(im, j, q) ==
    LET n  == Len(im)
        s  == WindowSum(im, j)
        v  == LocalVar9(im, j)
        sv == SumVar9(im, n)
    IN  IF n * v < sv THEN <<s, 3 * q>>
        ELSE IF v = 0 THEN <<0, 0>>
        ELSE <<(3 * im[j] - s) * (n * v - sv) + s * n * v, 3 * q * n * v>>

RECURSIVE WienerUpTo(_, _, _)
WienerUpTo(im, j, q) ==
    IF j = 0 THEN <<>> ELSE Append(WienerUpTo(im, j - 1, q), WienerAt(im, j, q))

\* frac_rec_sm = wiener(frac_rec[rl], 3), line 1140
Wiener(im, q) == WienerUpTo(im, Len(im), q)

\* the thresholds 0.68 and 0.90 as fractions
Frac68 == <<17, 25>>

Frac90 == <<9, 10>>

\* frac <= thr, false for NaN
ReachesBelow(frac, thr) == frac[2] > 0 /\ frac[1] * thr[2] <= thr[1] * frac[2]

\* frac >= thr, false for NaN
Reaches(frac, thr) == frac[2] > 0 /\ frac[1] * thr[2] >= thr[1] * frac[2]

\* the largest, instead of the smallest, bin centre that reaches the threshold
ThresholdEDLargest(h, sm, thr) ==
    LET rl == FiniteBins(h)
        x  == {p \in 1..Len(sm) : Reaches(sm[p], thr)}
    IN  IF Cardinality(x) > 0
        THEN Max({h.center[rl[p]] : p \in x})
        ELSE EDUnit * NeverReached

\* lines 1143-1153: x = np.where(frac_rec_sm >= thr); min(ed_fake[rl][x]) when
\* x is not empty, else -99
ThresholdED(h, sm, thr) ==
    LET rl == FiniteBins(h)
        x  == {p \in 1..Len(sm) : Reaches(sm[p], thr)}
    IN  IF Cardinality(x) > 0
        THEN Min({h.center[rl[p]] : p \in x})
        ELSE EDUnit * NeverReached

InitCompleteness ==
    /\ pc = "call"
    /\ FFIdle
    /\ MFIdle
    /\ FSIdle
    /\ \E n \in 1..MaxFake :
          /\ ed_fake \in [1..n -> 1..MaxED]
          /\ rec_fake \in [1..n -> {0, 1}]
    /\ hist = <<>>
    /\ frac_rec = <<>>
    /\ frac_rec_sm = <<>>
    /\ ed68_i = 0
    /\ ed90_i = 0
    /\ RLIdle
    /\ FKIdle
    /\ TWIdle
    /\ PTIdle
    /\ FCIdle
    /\ DBIdle

\* the completeness curve of one segment: the histograms FakeFlares returns
\* for its synthetic flares and the thresholds RunLC reads from them
Completeness ==
    /\ pc = "call"
    /\ hist' = Histogram(ed_fake, rec_fake)
    /\ frac_rec' = FiniteFractions(hist', FracUnit(Len(ed_fake)))
    /\ frac_rec_sm' = Wiener(frac_rec', FracUnit(Len(ed_fake)))
    /\ ed68_i' = ThresholdED(hist', frac_rec_sm', Frac68)
    /\ ed90_i' = ThresholdED(hist', frac_rec_sm', Frac90)
    /\ pc' = "done"
    /\ UNCHANGED <<ed_fake, rec_fake>>
    /\ UNCHANGED ffVars
    /\ UNCHANGED mfVars
    /\ UNCHANGED fsVars
    /\ UNCHANGED rlVars
    /\ UNCHANGED fkVars
    /\ UNCHANGED twVars
    /\ UNCHANGED ptVars
    /\ UNCHANGED fcVars
    /\ UNCHANGED dbVars

NextCompleteness == Completeness

SpecCompleteness == InitCompleteness /\ [][NextCompleteness]_vars

-----------------------------------------------------------------------------
(* RunLC, lines 1104-1178 and 1281-1286 *)

\* longest light curve given to RunLC
MaxCurve == 10

\* Times are whole ticks of 0.025 day, one tick between consecutive samples.

\* the extra ticks between two samples on either side of a gap
GapStep == 9

\* maxgap=0.125, the default of RunLC, line 1027
maxgap == 5

\* what the synthetic flares of one segment can be: their equivalent durations
\* and which of them are recovered
FakeTrials ==
    {<<<<1, 2, 3, 3>>, rec>> :
        rec \in {<<0, 0, 0, 0>>, <<1, 1, 1, 1>>}}

\* the "not computed" value of ed68_i and ed90_i, lines 1169-1170
NotComputed == -199

\* mode=3 and minsep=3, the defaults of MultiFind, lines 749-750
DefaultMode == 3

DefaultMinsep == 3

\* gapwindow=0.1, the default of FakeFlares, line 874
DefaultGapwindow == 4

\* a[lo:hi] of an array, as an array that starts at 0
Slice(a, lo, hi) == [i \in 0..(hi - lo - 1) |-> a[lo + i]]

\* the segment-local indices, the offset forgotten
ShiftNone(s, d) == [k \in 1..Len(s) |-> s[k]]

\* s + d for an array of indices
Shift(s, d) == [k \in 1..Len(s) |-> s[k] + d]

\* np.zeros(n) + v
Filled(n, v) == [k \in 1..n |-> v]

\* MultiFind, lines 813-851, as a function of its arguments: the per-sample
\* test on the residual is c; raises is the IndexError of np.delete
MultiFindReturn(c, fl, t, gw, ms) ==
    LET s  == FlareStarts(c, MultiFindN3)
        e  == FlareStops(c, MultiFindN3)
        c0 == Candidates(fl, BinOut(c, s, e))
        c1 == Delete(c0, NearEnd(t, c0, gw))
        x2 == NearStart(t, c0, gw)
        c2 == Delete(c1, x2)
        is == MergedStarts(c2, ms)
    IN  IF DeleteRaises(c1, x2)
        THEN [raises |-> TRUE, istart |-> <<>>, istop |-> <<>>]
        ELSE [raises |-> FALSE, istart |-> is,
              istop |-> ExtendSingle(is, MergedStops(c2, ms))]

\* dl of detrend.FindGaps(time, maxgap): the first sample and every sample
\* that follows a step longer than maxgap
FindGapsLeft(t, mg) ==
    Ascending({0} \cup {i \in 1..(Size(t) - 1) : t[i] - t[i - 1] > mg})

\* dr of detrend.FindGaps(time, maxgap): the same boundaries and len(time)
FindGapsRight(t, mg) ==
    Ascending({i \in 1..(Size(t) - 1) : t[i] - t[i - 1] > mg} \cup {Size(t)})

\* what a call MultiFind(time, flux, error, flags, gapwindow=gw) runs with:
\* lines 749-750 (defaults), 757 (FlagCuts) and 814-815 (FINDflare)
MultiFindCall(gw) ==
    [mode |-> DefaultMode, minsep |-> DefaultMinsep, gapwindow |-> gw,
     N1 |-> 3, N2 |-> 1, N3 |-> MultiFindN3, avg_std |-> TRUE,
     bad_flags |-> bad_flags]

\* FakeFlares calling MultiFind without the gapwindow it was given
FakeFlaresCallDefault(gw) == MultiFindCall(DefaultGapwindow)

\* the call of MultiFind by FakeFlares(..., gapwindow=gw), line 937
FakeFlaresCall(gw) == MultiFindCall(gw)

\* the rows a completeness table can hold before RunLC starts
OldRows == {[min_time |-> 0, max_time |-> 1, ed68_i |-> 0, ed90_i |-> 0]}

\* lines 996-998: outrow under the header of lines 974-978 (the columns that
\* do not depend on the segment are left out)
OutRow(t, e68, e90) ==
    [min_time |-> Min({t[i] : i \in DOMAIN t}),
     max_time |-> Max({t[i] : i \in DOMAIN t}),
     ed68_i |-> e68, ed90_i |-> e90]

\* a table that holds the new row only
SavedRowOnly(file, row) == <<row>>

\* lines 980-984 and 1012-1014: dfout is the table loaded from outfile, or
\* empty when there is no such file; the row is appended and h5store puts the
\* result back
Saved(file, row) == Append(file, row)

\* the light curves: one tick between consecutive samples, and a gap in
\* front of every sample of G
CurveTime(n, G) ==
    [i \in 0..(n - 1) |->
        i + GapStep * Cardinality({g \in G : g <= i})]

InitRunLC ==
    /\ pc = "loop"
    /\ N3 = MultiFindN3
    /\ \E n \in 1..MaxCurve :
          /\ cindx \in Arrays(n, {0, 1})
          /\ flags = [i \in 0..(n - 1) |-> 0]
          /\ \E g \in {0, n \div 2} : time = CurveTime(n, {g} \ {0})
    /\ gapwindow \in {0, 2}
    /\ minsep = DefaultMinsep
    /\ dofake \in BOOLEAN
    /\ dl = FindGapsLeft(time, maxgap)
    /\ dr = FindGapsRight(time, maxgap)
    /\ seg = 0
    /\ seg_ed = <<>>
    /\ ed68 = <<>>
    /\ ed90 = <<>>
    /\ istart = <<>>
    /\ istop = <<>>
    /\ istart_i = <<>>
    /\ istop_i = <<>>
    /\ cand0 = <<>>
    /\ cand1 = <<>>
    /\ real_call = <<>>
    /\ fake_call = <<>>
    /\ dfout = <<>>
    /\ reads = <<>>
    /\ outfile \in {<<>>} \cup (IF dofake THEN {<<r>> : r \in OldRows} ELSE {})
    /\ FSIdle
    /\ CCIdle
    /\ FKIdle
    /\ TWIdle
    /\ PTIdle
    /\ FCIdle
    /\ DBIdle

\* the thresholds RunLC reads from the completeness curve of the synthetic
\* flares ed, rec: lines 1139-1153
SegmentThresholds(ed, rec) ==
    LET h  == Histogram(ed, rec)
        q  == FracUnit(Len(ed))
        sm == Wiener(FiniteFractions(h, q), q)
    IN  <<ThresholdED(h, sm, Frac68), ThresholdED(h, sm, Frac90)>>

\* both thresholds "never reached" when the completeness is not estimated
SkippedThresholdsAsNeverReached ==
    <<EDUnit * NeverReached, EDUnit * NeverReached>>

\* lines 1167-1170: for speed you can skip the fake-flare tests
SkippedThresholds == <<EDUnit * NotComputed, EDUnit * NotComputed>>

\* the thresholds FakeFlares can lead to
TrialThresholds == {SegmentThresholds(f[1], f[2]) : f \in FakeTrials}

\* one pass of the loop "for i in range(0, len(dl))", lines 1110-1178
RunLCSegment ==
    /\ pc = "loop"
    /\ seg < Len(dl)
    /\ LET lo == dl[seg + 1]
           hi == dr[seg + 1]
           r  == MultiFindReturn(Slice(cindx, lo, hi), Slice(flags, lo, hi),
                                 Slice(time, lo, hi), gapwindow, minsep)
       IN  /\ real_call' = MultiFindCall(gapwindow)
           /\ IF r.raises
              THEN /\ pc' = "IndexError"
                   /\ UNCHANGED <<istart_i, istop_i, ed68_i, ed90_i, seg,
                                  seg_ed, ed68, ed90, istart, istop, fake_call,
                                  outfile>>
              ELSE /\ istart_i' = r.istart
                   /\ istop_i' = r.istop
                   /\ \E th \in IF dofake
                                THEN TrialThresholds
                                ELSE {SkippedThresholds} :
                         /\ ed68_i' = th[1]
                         /\ ed90_i' = th[2]
                   /\ fake_call' = IF dofake THEN FakeFlaresCall(gapwindow)
                                   ELSE fake_call
                   /\ outfile' = IF dofake
                                 THEN Saved(outfile, OutRow(Slice(time, lo, hi),
                                                            ed68_i', ed90_i'))
                                 ELSE outfile
                   /\ ed68' = ed68 \o Filled(Len(r.istart), ed68_i')
                   /\ ed90' = ed90 \o Filled(Len(r.istart), ed90_i')
                   /\ istart' = istart \o Shift(r.istart, lo)
                   /\ istop' = istop \o Shift(r.istop, lo)
                   /\ seg_ed' = Append(seg_ed, <<ed68_i', ed90_i'>>)
                   /\ seg' = seg + 1
                   /\ pc' = IF seg' < Len(dl) THEN "loop" ELSE "stats"
    /\ UNCHANGED <<cindx, N3, time, flags, gapwindow, minsep, cand0, cand1>>
    /\ UNCHANGED <<dofake, dl, dr, dfout, reads>>
    /\ UNCHANGED <<ed_fake, rec_fake, hist, frac_rec, frac_rec_sm>>
    /\ UNCHANGED fsVars
    /\ UNCHANGED fkVars
    /\ UNCHANGED twVars
    /\ UNCHANGED ptVars
    /\ UNCHANGED fcVars
    /\ UNCHANGED dbVars

\* FakeFlares stops RunLC when its own call of MultiFind raises the
\* IndexError of np.delete on the flare-injected series, line 937
RunLCFakeRaises ==
    /\ pc = "loop"
    /\ seg < Len(dl)
    /\ dofake
    /\ gapwindow > 0
    /\ ~MultiFindReturn(Slice(cindx, dl[seg + 1], dr[seg + 1]),
                        Slice(flags, dl[seg + 1], dr[seg + 1]),
                        Slice(time, dl[seg + 1], dr[seg + 1]),
                        gapwindow, minsep).raises
    /\ real_call' = MultiFindCall(gapwindow)
    /\ fake_call' = FakeFlaresCall(gapwindow)
    /\ pc' = "IndexError"
    /\ UNCHANGED <<dofake, dl, dr, seg, seg_ed, ed68, ed90, dfout, reads,
                   outfile>>
    /\ UNCHANGED ffVars
    /\ UNCHANGED mfVars
    /\ UNCHANGED fsVars
    /\ UNCHANGED ccVars
    /\ UNCHANGED fkVars
    /\ UNCHANGED twVars
    /\ UNCHANGED ptVars
    /\ UNCHANGED fcVars
    /\ UNCHANGED dbVars

\* how FlareStats(time, ..., istart=a0, istop=b0) ends on arrays of n samples:
\* "done", or the exception that escapes (lines 593-610, 642, 658)
FlareStatsEnds(n, a0, b0) ==
    LET a == WidenedStart(DefaultStart(a0), DefaultStop(b0, n))
        b == WidenedStop(DefaultStart(a0), DefaultStop(b0, n))
    IN  IF ~IndexOK(n, a) \/ ~IndexOK(n, b) THEN "IndexError"
        ELSE IF Len(SliceIndices(n, a, b + 1)) = 0 THEN "ValueError"
        ELSE IF Len(SliceIndices(n, a, b + 1)) < 3 THEN "TypeError"
        ELSE "done"

\* the samples a call FlareStats(time, flux, error, model, istart=a0,
\* istop=b0) that returns computes its result from: the event window
\* (lines 624-627), the continuum (lines 615-632) and the samples of model
\* under np.nanmedian (line 639)
FlareStatsReads(t, a0, b0) ==
    LET n  == Size(t)
        a  == WidenedStart(DefaultStart(a0), DefaultStop(b0, n))
        b  == WidenedStop(DefaultStart(a0), DefaultStop(b0, n))
        c  == ContinuumBefore(t, At(t, a), At(t, b) - At(t, a))
                \o ContinuumAfter(t, At(t, b), At(t, b) - At(t, a))
    IN  [flare  |-> Range(SliceIndices(n, a, b + 1)),
         cont   |-> IF NoContinuum(c) THEN {a, b} ELSE Range(c),
         median |-> DOMAIN t]

\* the row of event k with the thresholds of the event before it
FlareRowShifted(k) ==
    [istart |-> istart[k], istop |-> istop[k],
     ED68i |-> ed68[IF k > 1 THEN k - 1 ELSE k],
     ED90i |-> ed90[IF k > 1 THEN k - 1 ELSE k]]

\* lines 1282-1284: [*stats_i, ed68[i], ed90[i]] under the header of
\* FlareStats + ['ED68i', 'ED90i']; stats_i is kept as the candidate it is of
FlareRow(k) ==
    [istart |-> istart[k], istop |-> istop[k],
     ED68i |-> ed68[k], ED90i |-> ed90[k]]

\* the loop "for i in range(0, len(istart))" over the whole light curve,
\* lines 1281-1286, up to the first call of FlareStats that raises
RunLCStats ==
    /\ pc = "stats"
    /\ LET n   == Size(time)
           bad == {k \in 1..Len(istart) :
                      FlareStatsEnds(n, istart[k], istop[k]) # "done"}
           upto == IF bad = {} THEN Len(istart) ELSE Min(bad) - 1
       IN  /\ dfout' = [k \in 1..upto |-> FlareRow(k)]
           /\ reads' = [k \in 1..upto |->
                            FlareStatsReads(time, istart[k], istop[k])]
           /\ pc' = IF bad = {} THEN "done"
                    ELSE FlareStatsEnds(n, istart[Min(bad)], istop[Min(bad)])
    /\ UNCHANGED <<dofake, dl, dr, seg, seg_ed, ed68, ed90, real_call, fake_call,
                   outfile>>
    /\ UNCHANGED ffVars
    /\ UNCHANGED mfVars
    /\ UNCHANGED fsVars
    /\ UNCHANGED ccVars
    /\ UNCHANGED fkVars
    /\ UNCHANGED twVars
    /\ UNCHANGED ptVars
    /\ UNCHANGED fcVars
    /\ UNCHANGED dbVars

NextRunLC == RunLCSegment \/ RunLCFakeRaises \/ RunLCStats

SpecRunLC == InitRunLC /\ [][NextRunLC]_vars

-----------------------------------------------------------------------------
(* FakeFlares, lines 872-1021 *)

\* longest segment given to FakeFlares
MaxFakeSeg == 5

\* values of nfake tried
FakeCounts == {1, 2}

\* equivalent durations of the synthetic flares tried
InjectedED == {1, 2}

\* t_tmp1 = time[dl[i]:dr[i]][istart_i], lines 1125-1127: the times at indices
TimesAt(t, idx) == [k \in 1..Len(idx) |-> t[idx[k]]]

\* a draw rejected when it is after a window's start or before its stop
InsideKnownEither(t0, kn) ==
    /\ Len(kn.tstart) > 0
    /\ \E j \in 1..Len(kn.tstart) : t0 >= kn.tstart[j] \/ t0 <= kn.tstop[j]

\* a draw rejected only when it is strictly inside a known window
InsideKnownOpen(t0, kn) ==
    /\ Len(kn.tstart) > 0
    /\ \E j \in 1..Len(kn.tstart) : t0 > kn.tstart[j] /\ t0 < kn.tstop[j]

\* lines 911-916: is the draw t0 rejected: x = np.where((t0 >= tstart) &
\* (t0 <= tstop)) is not empty
InsideKnown(t0, kn) ==
    /\ Len(kn.tstart) > 0
    /\ \E j \in 1..Len(kn.tstart) : t0 >= kn.tstart[j] /\ t0 <= kn.tstop[j]

\* a flare counted as recovered only when it peaks after a candidate starts
RecFakeFromStart(t, t0s, is, ie) ==
    [k \in 1..Len(t0s) |->
        IF Len(is) > 0 /\ \E j \in 1..Len(is) : t0s[k] >= t[is[j]]
        THEN 1 ELSE 0]

\* lines 939-948: rec_fake, 1 where the peak time is inside a candidate of
\* the re-run detection
RecFake(t, t0s, is, ie) ==
    [k \in 1..Len(t0s) |->
        IF Len(is) > 0
           /\ \E j \in 1..Len(is) : t0s[k] >= t[is[j]] /\ t0s[k] <= t[ie[j]]
        THEN 1 ELSE 0]

\* FakeFlares as RunLC calls it (lines 1125-1137): the known candidates are
\* those MultiFind returned for the segment
InitFakeFlares ==
    /\ pc = "draw"
    /\ N3 = MultiFindN3
    /\ \E n \in 1..MaxFakeSeg :
          /\ \E g \in {0, n \div 2} : time = TimeArray(n, g)
          /\ flags = [i \in 0..(n - 1) |-> 0]
          /\ gapwindow \in {0, 2}
          /\ \E c \in Arrays(n, {0, 1}) :
                LET r == MultiFindReturn(c, flags, time, gapwindow, DefaultMinsep)
                IN  /\ ~r.raises
                    /\ known = [tstart |-> TimesAt(time, r.istart),
                                tstop |-> TimesAt(time, r.istop)]
    /\ cindx = <<>>
    /\ minsep = DefaultMinsep
    /\ nfake \in FakeCounts
    /\ t0_fake = <<>>
    /\ ed_fake = <<>>
    /\ rec_fake = <<>>
    /\ hist = <<>>
    /\ frac_rec = <<>>
    /\ frac_rec_sm = <<>>
    /\ ed68_i = 0
    /\ ed90_i = 0
    /\ istart_i = <<>>
    /\ istop_i = <<>>
    /\ cand0 = <<>>
    /\ cand1 = <<>>
    /\ istart = <<>>
    /\ istop = <<>>
    /\ outfile = <<>>
    /\ dofake = TRUE
    /\ dl = <<>>
    /\ dr = <<>>
    /\ seg = 0
    /\ seg_ed = <<>>
    /\ ed68 = <<>>
    /\ ed90 = <<>>
    /\ real_call = <<>>
    /\ fake_call = <<>>
    /\ dfout = <<>>
    /\ reads = <<>>
    /\ FSIdle
    /\ TWIdle
    /\ PTIdle
    /\ FCIdle
    /\ DBIdle

\* one pass of "while isok is False", lines 907-918: a peak time is drawn
\* from the sample times; a draw inside a known candidate is drawn again,
\* any other is kept as t0_fake[k] with the flare's equivalent duration
FakeDraw ==
    /\ pc = "draw"
    /\ Len(t0_fake) < nfake
    /\ \E i \in DOMAIN time :
          IF InsideKnown(time[i], known)
          THEN UNCHANGED <<t0_fake, ed_fake>>
          ELSE /\ t0_fake' = Append(t0_fake, time[i])
               /\ \E ed \in InjectedED : ed_fake' = Append(ed_fake, ed)
    /\ pc' = "draw"
    /\ UNCHANGED <<rec_fake, hist, frac_rec, frac_rec_sm, ed68_i, ed90_i>>
    /\ UNCHANGED <<nfake, known>>
    /\ UNCHANGED twVars
    /\ UNCHANGED ptVars
    /\ UNCHANGED fcVars
    /\ UNCHANGED dbVars
    /\ UNCHANGED ffVars
    /\ UNCHANGED mfVars
    /\ UNCHANGED fsVars
    /\ UNCHANGED rlVars

\* the rest of FakeFlares, lines 936-1021: the detection is run again on the
\* series with the flares injected, where the per-sample test can come out
\* any way; then the recovered flares, the histograms, the thresholds and
\* the row appended to the table
FakeDetect ==
    /\ pc = "draw"
    /\ Len(t0_fake) = nfake
    /\ \E c \in Arrays(Size(time), {0, 1}) :
          LET r  == MultiFindReturn(c, flags, time, gapwindow, minsep)
              rf == RecFake(time, t0_fake, r.istart, r.istop)
          IN  /\ cindx' = c
              /\ IF r.raises
                    \/ \E j \in 1..Len(r.istop) : ~IndexOK(Size(time), r.istop[j])
                 THEN /\ pc' = "IndexError"
                      /\ UNCHANGED <<istart, istop, rec_fake, hist, frac_rec,
                                     frac_rec_sm, ed68_i, ed90_i, outfile>>
                 ELSE /\ pc' = "done"
                      /\ istart' = r.istart
                      /\ istop' = r.istop
                      /\ rec_fake' = rf
                      /\ hist' = Histogram(ed_fake, rf)
                      /\ frac_rec' = FiniteFractions(hist', FracUnit(nfake))
                      /\ frac_rec_sm' = Wiener(frac_rec', FracUnit(nfake))
                      /\ ed68_i' = ThresholdED(hist', frac_rec_sm', Frac68)
                      /\ ed90_i' = ThresholdED(hist', frac_rec_sm', Frac90)
                      /\ outfile' = Saved(outfile, OutRow(time, ed68_i', ed90_i'))
    /\ UNCHANGED <<N3, istart_i, istop_i>>
    /\ UNCHANGED <<time, flags, gapwindow, minsep, cand0, cand1>>
    /\ UNCHANGED <<ed_fake, nfake, known, t0_fake>>
    /\ UNCHANGED twVars
    /\ UNCHANGED ptVars
    /\ UNCHANGED fcVars
    /\ UNCHANGED dbVars
    /\ UNCHANGED <<dofake, dl, dr, seg, seg_ed, ed68, ed90, real_call,
                   fake_call, dfout, reads>>
    /\ UNCHANGED fsVars

NextFakeFlares == FakeDraw \/ FakeDetect

SpecFakeFlares == InitFakeFlares /\ [][NextFakeFlares]_vars

\* np.random.choice(time), line 909, is a fair choice: a peak time that can
\* be accepted is not passed over for ever
SpecFakeFlaresLive ==
    /\ InitFakeFlares
    /\ [][NextFakeFlares]_vars
    /\ WF_vars(FakeDraw)

-----------------------------------------------------------------------------
(* RunLC with dofake on two light curves under one seed *)

\* synthetic flares per call of FakeFlares
TwinFake == 3

\* number of states of the generator
RngMod == 16

\* levels of the amplitude and of the duration of a synthetic flare
MaxAmpl == 2

MaxDur == 3

\* samples of a segment
MaxTwinSeg == 7

\* np.random is one generator for the whole process (lines 892, 893, 909):
\* every draw returns a number made from its state and moves the state on
RandomNext(x) == (5 * x + 3) % RngMod

\* a draw scaled to one of k values
Uniform(x, k) == (x * k) \div RngMod

\* np.random.random(n), lines 892-893: n draws in a row
RECURSIVE RandomRandom(_, _)
RandomRandom(x, n) ==
    IF n = 0 THEN [val |-> <<>>, x |-> x]
    ELSE LET r == RandomRandom(x, n - 1)
         IN  [val |-> Append(r.val, r.x), x |-> RandomNext(r.x)]

\* lines 907-916, "while isok is False": np.random.choice(time) is drawn
\* again until a draw is outside the known candidates; ok is FALSE when the
\* generator has gone round without such a draw
RECURSIVE ChooseT0(_, _, _, _)
ChooseT0(x, t, kn, fuel) ==
    LET t0 == t[Uniform(x, Size(t))]
    IN  IF ~InsideKnown(t0, kn)
        THEN [ok |-> TRUE, t0 |-> t0, x |-> RandomNext(x)]
        ELSE IF fuel = 0
             THEN [ok |-> FALSE, t0 |-> t0, x |-> RandomNext(x)]
             ELSE ChooseT0(RandomNext(x), t, kn, fuel - 1)

\* lines 904-918: the peak times of the n flares
RECURSIVE PeakTimes(_, _, _, _)
PeakTimes(x, t, kn, n) ==
    IF n = 0 THEN [ok |-> TRUE, val |-> <<>>, x |-> x]
    ELSE LET r == PeakTimes(x, t, kn, n - 1)
             c == ChooseT0(r.x, t, kn, RngMod)
         IN  IF r.ok /\ c.ok
             THEN [ok |-> TRUE, val |-> Append(r.val, c.t0), x |-> c.x]
             ELSE [ok |-> FALSE, val |-> r.val, x |-> r.x]

\* aflare1 and EquivDur (lines 921-926): the equivalent duration of a
\* synthetic flare grows with its amplitude and its duration
FakeED(a, d) == a * d

\* the per-sample test of the detection on the series with the flares
\* injected (line 937): a sample passes when it passed without the flares, or
\* when a flare at least as high as the segment's detection limit covers it
InjectedTest(sg, t0s, a, d) ==
    [i \in DOMAIN sg.time |->
        IF \/ sg.c0[i] = 1
           \/ \E k \in 1..Len(t0s) :
                 /\ a[k] >= sg.lim
                 /\ sg.time[i] >= t0s[k]
                 /\ sg.time[i] <= t0s[k] + d[k]
        THEN 1 ELSE 0]

\* FakeFlares(..., nfake=TwinFake) on segment sg with the known candidates
\* kn, started with the generator in state x (lines 890-962 and RunLC's
\* lines 1139-1153)
SeededFakeFlares(sg, kn, x) ==
    LET ra == RandomRandom(x, TwinFake)
        rd == RandomRandom(ra.x, TwinFake)
        rt == PeakTimes(rd.x, sg.time, kn, TwinFake)
        a  == [k \in 1..TwinFake |-> 1 + Uniform(ra.val[k], MaxAmpl)]
        d  == [k \in 1..TwinFake |-> 1 + Uniform(rd.val[k], MaxDur)]
        ed == [k \in 1..TwinFake |-> FakeED(a[k], d[k])]
        fl == [i \in DOMAIN sg.time |-> 0]
        r  == IF rt.ok
              THEN MultiFindReturn(InjectedTest(sg, rt.val, a, d), fl, sg.time,
                                   0, DefaultMinsep)
              ELSE [raises |-> TRUE, istart |-> <<>>, istop |-> <<>>]
        th == SegmentThresholds(ed, RecFake(sg.time, rt.val, r.istart, r.istop))
    IN  IF ~rt.ok THEN [ok |-> FALSE, hangs |-> TRUE, x |-> rt.x,
                        ed68 |-> 0, ed90 |-> 0]
        ELSE IF r.raises
                \/ \E j \in 1..Len(r.istop) : ~IndexOK(Size(sg.time), r.istop[j])
        THEN [ok |-> FALSE, hangs |-> FALSE, x |-> rt.x, ed68 |-> 0, ed90 |-> 0]
        ELSE [ok |-> TRUE, hangs |-> FALSE, x |-> rt.x,
              ed68 |-> th[1], ed90 |-> th[2]]

\* a segment: its sample times, the outcome of the per-sample test on its own
\* samples (one stretch lo..hi of passing samples, or none) and the height a
\* synthetic flare needs to pass the test
TwinSegments ==
    {[time |-> TimeArray(n, 0),
      c0   |-> [i \in 0..(n - 1) |-> IF lo <= i /\ i <= hi THEN 1 ELSE 0],
      lim  |-> l] :
        n \in {MaxTwinSeg - 1, MaxTwinSeg}, lo \in {1, 2}, hi \in {0, 3},
        l \in 1..MaxAmpl}

\* the candidates MultiFind returns for the segment itself (lines 1115-1117)
TwinReal(sg) ==
    MultiFindReturn(sg.c0, [i \in DOMAIN sg.time |-> 0], sg.time, 0,
                    DefaultMinsep)

\* two light curves that agree on their last segment S; the second has a
\* segment Y before it; both are processed from the same seed
InitSeeded ==
    /\ pc = "seeded"
    /\ \E x \in 0..(RngMod - 1) : rng = <<x, x>>
    /\ \E S \in TwinSegments, Y \in TwinSegments :
          /\ ~TwinReal(S).raises
          /\ ~TwinReal(Y).raises
          /\ curve = <<<<S>>, <<Y, S>>>>
    /\ res = <<<<>>, <<>>>>
    /\ FFIdle
    /\ MFIdle
    /\ FSIdle
    /\ CCIdle
    /\ RLIdle
    /\ FKIdle
    /\ PTIdle
    /\ FCIdle
    /\ DBIdle

\* one pass of RunLC's loop over the segments (lines 1110-1176) with
\* dofake=True, on light curve r
SeededPass ==
    /\ pc = "seeded"
    /\ \E r \in 1..2 :
          /\ Len(res[r]) < Len(curve[r])
          /\ \A j \in 1..Len(res[r]) : res[r][j].ok
          /\ LET sg == curve[r][Len(res[r]) + 1]
                 m  == TwinReal(sg)
                 kn == [tstart |-> TimesAt(sg.time, m.istart),
                        tstop |-> TimesAt(sg.time, m.istop)]
             IN  \E f \in {SeededFakeFlares(sg, kn, rng[r])} :
                    /\ ~f.hangs
                    /\ rng' = [rng EXCEPT ![r] = f.x]
                    /\ res' = [res EXCEPT ![r] =
                                  Append(@, [ok |-> f.ok, istart |-> m.istart,
                                             istop |-> m.istop,
                                             ed68 |-> f.ed68,
                                             ed90 |-> f.ed90])]
    /\ pc' = "seeded"
    /\ UNCHANGED curve
    /\ UNCHANGED ffVars
    /\ UNCHANGED mfVars
    /\ UNCHANGED fsVars
    /\ UNCHANGED ccVars
    /\ UNCHANGED rlVars
    /\ UNCHANGED fkVars
    /\ UNCHANGED ptVars
    /\ UNCHANGED fcVars
    /\ UNCHANGED dbVars

NextSeeded == SeededPass

SpecSeeded == InitSeeded /\ [][NextSeeded]_vars

-----------------------------------------------------------------------------
(* C2 - C5: the candidates MultiFind returns *)

\* C2: for every segment and every minsep the returned candidates satisfy
\* istart[k] <= istop[k], have strictly increasing starts and do not overlap
\* (istop[k] < istart[k+1]), after the merging and the one-sample extension.
C2_OrderedDisjoint ==
    pc = "done" =>
        /\ Len(istart) = Len(istop)
        /\ \A k \in 1..Len(istart) : istart[k] <= istop[k]
        /\ \A k \in 1..(Len(istart) - 1) :
              istart[k] < istart[k + 1] /\ istop[k] < istart[k + 1]

\* sample i passed the per-sample test and carries no disallowed quality bit
GoodFlagged(i) == cindx[i] = 1 /\ FlagCutsBad(flags)[i] < 1

\* sample i lies in a run of at least n3 consecutive samples that all passed
\* the test with good quality
InGoodRun(i, n3) ==
    \E a \in DOMAIN cindx : \E b \in DOMAIN cindx :
        /\ a <= i /\ i <= b
        /\ b - a + 1 >= n3
        /\ \A j \in a..b : GoodFlagged(j)

\* C3: bad-quality samples are excluded before the run-length detection, so
\* they do not count toward a run of N3 samples: every candidate sample lies
\* in a run of at least N3 consecutive good-quality flagged samples.
C3_BadExcludedBeforeRuns ==
    pc = "done" =>
        \A p \in 1..Len(cand1) : InGoodRun(cand1[p], N3)

\* the time of sample i is within gapwindow of the first or the last sample
NearEdge(i) ==
    \/ Abs(time[i] - time[0]) < gapwindow
    \/ Abs(time[i] - Last(time)) < gapwindow

\* C4: no returned candidate range [istart, istop], a stop moved by the
\* single-point extension included, contains a sample whose time is within
\* gapwindow of either end of the segment.
C4_NoCandidateNearEdge ==
    pc = "done" =>
        \A k \in 1..Len(istart) :
            \A i \in istart[k]..istop[k] : i \in DOMAIN time /\ ~NearEdge(i)

\* C5: consecutive returned candidates are separated by more than minsep
\* samples, also when a stop was extended by one sample.
C5_SeparatedByMinsep ==
    pc = "done" =>
        \A k \in 1..(Len(istart) - 1) : istart[k + 1] - istop[k] > minsep

-----------------------------------------------------------------------------
(* C6 - C9: FlareStats *)

\* the candidate is one the claims cover: 0 <= istart <= istop <= len-1, in
\* arrays that hold the 3 samples a widened event needs
InRangeCandidate ==
    /\ Size(time) >= 3
    /\ 0 <= cand.istart
    /\ cand.istart <= cand.istop
    /\ cand.istop <= Size(time) - 1

\* C6: FlareStats never raises for a candidate with 0 <= istart <= istop <=
\* len-1 (zero-width candidates at the first or last sample and two-sample
\* candidates ending at the last sample included): no index is out of range,
\* the event slice is not empty and a complete tuple of 15 values is returned.
C6_NeverRaises ==
    (pc # "call" /\ InRangeCandidate) =>
        /\ pc = "done"
        /\ Len(fs.flaretime) > 0
        /\ Len(fs.params) = 15

\* the params other than the three template parameters, as FlareStats
\* computes them from the window, the continuum and the degree alone
OtherFields ==
    Params(At(time, fs.istart), At(time, fs.istop), fs.istart, fs.istop,
           fs.contindx, fs.cpoly, <<NaN, NaN, NaN>>)

\* C7: the two failure modes of the template fit stay distinguishable and
\* non-fatal: a ValueError gives NaN for the three template parameters, a
\* RuntimeError gives -99 for the three, a converged fit gives the fitted
\* values; no failure of the fit escapes FlareStats, and in the three cases
\* the tuple is returned with every other field computed the same way.
C7_FitFailuresDistinct ==
    /\ pc # "RuntimeError"
    /\ (pc = "ValueError" => Len(fs.flaretime) = 0)
    /\ (pc = "done" =>
          /\ Len(fs.params) = 15
          /\ (fit.outcome = "ValueError" =>
                \A k \in 7..9 : fs.params[k] = NaN)
          /\ (fit.outcome = "RuntimeError" =>
                \A k \in 7..9 : fs.params[k] = Num(-99))
          /\ (fit.outcome = "ok" =>
                \A k \in 7..9 : fs.params[k] = Num(fit.popt[k - 6]))
          /\ \A k \in (1..15) \ (7..9) : fs.params[k] = OtherFields[k])

\* a fit that did not converge was recorded in a returned tuple
C7_Witness ==
    /\ pc = "done"
    /\ fit.outcome = "RuntimeError"
    /\ fs.params[7] = Num(-99)
    /\ Len(fs.params) = 15

\* the samples in the window before the event: as long as the event and half
\* its duration away from its start
WindowBefore ==
    LET tstart == At(time, fs.istart)
        dur0   == At(time, fs.istop) - tstart
    IN  {i \in DOMAIN time :
            tstart - dur0 <= time[i] /\ 2 * time[i] <= 2 * tstart - dur0}

\* the samples in the window after the event
WindowAfter ==
    LET tstop == At(time, fs.istop)
        dur0  == tstop - At(time, fs.istart)
    IN  {i \in DOMAIN time :
            2 * tstop + dur0 <= 2 * time[i] /\ time[i] <= tstop + dur0}

\* C8: the continuum fallback is taken exactly when neither flanking window
\* contains a sample; the continuum is then the first and the last sample of
\* the event and the degree is 1; otherwise the continuum is the union of the
\* samples of both windows and the degree is the configured cpoly.
C8_FallbackExactlyWhenEmpty ==
    pc = "done" =>
        /\ fs.fallback = (WindowBefore \cup WindowAfter = {})
        /\ (fs.fallback =>
              fs.contindx = <<fs.istart, fs.istop>> /\ fs.cpoly = 1)
        /\ (~fs.fallback =>
              /\ Range(fs.contindx) = WindowBefore \cup WindowAfter
              /\ Len(fs.contindx) = Cardinality(WindowBefore \cup WindowAfter)
              /\ fs.cpoly = cand.cpoly)

\* the fallback was taken for an event without any sample in its windows
C8_Witness ==
    /\ pc = "done"
    /\ fs.fallback
    /\ WindowBefore \cup WindowAfter = {}
    /\ fs.contindx = <<fs.istart, fs.istop>>
    /\ fs.cpoly = 1
    /\ cand.cpoly # 1

\* the samples of the input arrays inside the widened window istart..istop
EventSamples == {i \in fs.istart..fs.istop : i \in DOMAIN time}

\* C9: after the widening, for every candidate with 0 <= istart <= istop <=
\* len-1, the event window contains at least 3 samples of the input arrays.
C9_WindowHasThreeSamples ==
    (pc # "call" /\ InRangeCandidate) => Cardinality(EventSamples) >= 3

-----------------------------------------------------------------------------
(* C10: the completeness thresholds *)

\* the smoothed recovered fraction of the non-empty bin i
SmoothedOfBin(i) ==
    LET p == CHOOSE q \in 1..Len(frac_rec_sm) : FiniteBins(hist)[q] = i
    IN  frac_rec_sm[p]

\* the non-empty bins whose smoothed recovered fraction is >= thr
BinsReaching(thr) ==
    {i \in 0..(nbins - 1) : hist.D[i] > 0 /\ Reaches(SmoothedOfBin(i), thr)}

\* ed is the threshold the claim describes for thr
IsThreshold(ed, thr) ==
    IF BinsReaching(thr) = {}
    THEN ed = EDUnit * NeverReached
    ELSE /\ ed \in {hist.center[i] : i \in BinsReaching(thr)}
         /\ \A i \in BinsReaching(thr) : ed <= hist.center[i]
         /\ ed # EDUnit * NeverReached

\* C10: ed68 (ed90) is the smallest bin-centre equivalent duration among the
\* non-empty bins whose smoothed recovered fraction is >= 0.68 (0.90), and it
\* is -99 exactly when no non-empty bin reaches the threshold; the
\* computation never fails for lack of a crossing.
C10_ThresholdIsSmallestReachingBin ==
    /\ pc \in {"call", "done"}
    /\ (pc = "done" =>
          /\ Len(frac_rec_sm) = Cardinality({i \in 0..(nbins - 1) : hist.D[i] > 0})
          /\ IsThreshold(ed68_i, Frac68)
          /\ IsThreshold(ed90_i, Frac90))

\* a curve where several bins reach 0.68, one of them reaches 0.90 and it is
\* not the first of them
C10_Witness ==
    /\ pc = "done"
    /\ Cardinality(BinsReaching(Frac68)) > 1
    /\ ed68_i # EDUnit * NeverReached
    /\ ed90_i # EDUnit * NeverReached
    /\ ed68_i < ed90_i

-----------------------------------------------------------------------------
(* C11, C15, C17, C18: RunLC *)

\* C11: with dofake False every event of every segment carries
\* ed68 = ed90 = -199, a value that is not the "never reached" -99 and that no
\* computed completeness curve gives.
C11_NotComputedIsDistinct ==
    /\ Len(ed68) = Len(istart)
    /\ Len(ed90) = Len(istart)
    /\ NotComputed # NeverReached
    /\ ~dofake =>
          /\ \A k \in 1..Len(ed68) : ed68[k] = EDUnit * NotComputed
          /\ \A k \in 1..Len(ed90) : ed90[k] = EDUnit * NotComputed
          /\ \A k \in 1..Len(dfout) :
                /\ dfout[k].ED68i = EDUnit * NotComputed
                /\ dfout[k].ED90i = EDUnit * NotComputed
    /\ dofake =>
          /\ \A k \in 1..Len(ed68) : ed68[k] # EDUnit * NotComputed
          /\ \A k \in 1..Len(ed90) : ed90[k] # EDUnit * NotComputed
          /\ \A j \in 1..Len(seg_ed) :
                /\ seg_ed[j][1] # EDUnit * NotComputed
                /\ seg_ed[j][2] # EDUnit * NotComputed

\* a run without completeness estimation that wrote the rows of events of
\* two segments
C11_Witness ==
    /\ pc = "done"
    /\ ~dofake
    /\ Len(dl) = 2
    /\ Len(dfout) >= 2
    /\ dfout[1].istart < dl[2]
    /\ dfout[2].istart >= dl[2]
    /\ dfout[2].ED68i = EDUnit * NotComputed

\* C15: the detection FakeFlares re-runs on the injected series of a segment
\* has the configuration of the detection RunLC ran on the segment: same mode,
\* N1, N2, N3, noise mode, quality-flag cut, minsep and gapwindow.
C15_SameDetectionConfiguration ==
    (fake_call # <<>>) =>
        /\ real_call # <<>>
        /\ fake_call.mode = real_call.mode
        /\ fake_call.N1 = real_call.N1
        /\ fake_call.N2 = real_call.N2
        /\ fake_call.N3 = real_call.N3
        /\ fake_call.avg_std = real_call.avg_std
        /\ fake_call.bad_flags = real_call.bad_flags
        /\ fake_call.minsep = real_call.minsep
        /\ fake_call.gapwindow = real_call.gapwindow
        /\ real_call.gapwindow = gapwindow

\* two segments searched and re-searched with a gapwindow that is not the
\* default of FakeFlares
C15_Witness ==
    /\ seg = 2
    /\ dofake
    /\ fake_call # <<>>
    /\ fake_call.gapwindow # DefaultGapwindow
    /\ Len(istart) > 0

\* the segment (1..len(dl)) the global index g falls in
SegmentOf(g) == CHOOSE j \in 1..Len(dl) : dl[j] <= g /\ g < dr[j]

\* the events RunLC found in segment j, as positions of the aggregated arrays
EventsOf(j) ==
    {k \in 1..Len(istart) : dl[j] <= istart[k] /\ istart[k] < dr[j]}

\* C17: the aggregated istart, istop, ed68 and ed90 have the same length and
\* the k-th event carries the ed68/ed90 computed for the segment it was
\* detected in; segments without candidates contribute no entry.
C17_EventCarriesItsSegmentThresholds ==
    /\ Len(istop) = Len(istart)
    /\ Len(ed68) = Len(istart)
    /\ Len(ed90) = Len(istart)
    /\ \A k \in 1..Len(istart) :
          /\ \E j \in 1..seg : dl[j] <= istart[k] /\ istart[k] < dr[j]
          /\ SegmentOf(istart[k]) <= seg
          /\ ed68[k] = seg_ed[SegmentOf(istart[k])][1]
          /\ ed90[k] = seg_ed[SegmentOf(istart[k])][2]
    /\ \A j \in 1..seg :
          Cardinality(EventsOf(j)) =
              Len(MultiFindReturn(Slice(cindx, dl[j], dr[j]),
                                  Slice(flags, dl[j], dr[j]),
                                  Slice(time, dl[j], dr[j]),
                                  gapwindow, minsep).istart)
    /\ \A k \in 1..Len(dfout) :
          /\ dfout[k].istart = istart[k]
          /\ dfout[k].istop = istop[k]
          /\ dfout[k].ED68i = seg_ed[SegmentOf(istart[k])][1]
          /\ dfout[k].ED90i = seg_ed[SegmentOf(istart[k])][2]

\* events of two segments whose thresholds differ, all written to the table
C17_Witness ==
    /\ pc = "done"
    /\ Len(dl) = 2
    /\ seg_ed[1] # seg_ed[2]
    /\ Len(dfout) >= 2
    /\ dfout[1].ED68i # dfout[Len(dfout)].ED68i
    /\ dfout[1].ED68i # EDUnit * NeverReached
    /\ dfout[Len(dfout)].ED68i = EDUnit * NeverReached

\* C18: every aggregated candidate lies inside the segment it came from,
\* dl[i] <= istart <= istop <= dr[i]-1, and the aggregated list is ordered by
\* increasing global start index.
C18_GlobalIndicesInsideSegment ==
    /\ Len(istop) = Len(istart)
    /\ \A k \in 1..Len(istart) :
          \E j \in 1..seg :
              /\ dl[j] <= istart[k]
              /\ istart[k] <= istop[k]
              /\ istop[k] <= dr[j] - 1
    /\ \A k \in 1..(Len(istart) - 1) : istart[k] < istart[k + 1]

\* a candidate in the second segment, away from index 0
C18_Witness ==
    /\ seg = 2
    /\ Len(istart) >= 2
    /\ istart[1] < dl[2]
    /\ istart[Len(istart)] > dl[2]
    /\ istop[Len(istart)] > istart[Len(istart)]

-----------------------------------------------------------------------------
(* C14: the histogram of FakeFlares *)

\* 2 * nbins times the lower edge of bin i, for twice the first edge e2 and
\* the width w of the range that np.histogram(ed_fake, bins=nbins) divides
BinEdge(e2, w, i) == nbins * e2 + 2 * i * w

\* is the equivalent duration v inside bin i: edges are half-open, the last
\* bin includes the largest value
InsideBin(e2, w, v, i) ==
    /\ BinEdge(e2, w, i) <= 2 * nbins * v
    /\ \/ 2 * nbins * v < BinEdge(e2, w, i + 1)
       \/ i = nbins - 1 /\ 2 * nbins * v = BinEdge(e2, w, nbins)

RECURSIVE SumTo(_, _)
SumTo(f, i) == IF i < 0 THEN 0 ELSE f[i] + SumTo(f, i - 1)

\* C14: the nfake synthetic flares are binned in exactly 20 bins, every flare
\* in exactly one bin (the totals sum to nfake); the fraction of a non-empty
\* bin is recovered/total of the bin and lies in [0,1]; the fraction of an
\* empty bin is NaN.
C14_HistogramPartitionsFlares ==
    (pc = "done") =>
        LET e2 == FirstEdge2(ed_fake)
            w  == BinRange(ed_fake)
        IN  /\ DOMAIN hist.D = 0..19
            /\ DOMAIN hist.N = 0..19
            /\ DOMAIN RecBin(hist) = 0..19
            /\ \A k \in 1..Len(ed_fake) :
                  Cardinality({i \in 0..19 : InsideBin(e2, w, ed_fake[k], i)}) = 1
            /\ SumTo(hist.D, 19) = Len(ed_fake)
            /\ \A i \in 0..19 :
                  LET in == {k \in 1..Len(ed_fake) : InsideBin(e2, w, ed_fake[k], i)}
                  IN  /\ hist.D[i] = Cardinality(in)
                      /\ hist.N[i] = Cardinality({k \in in : rec_fake[k] = 1})
                      /\ IF in = {}
                         THEN RecBin(hist)[i] = <<0, 0>>
                         ELSE /\ RecBin(hist)[i] = <<hist.N[i], hist.D[i]>>
                              /\ 0 <= hist.N[i]
                              /\ hist.N[i] <= hist.D[i]

\* a histogram with an empty bin, a bin of several flares that are partly
\* recovered, and a flare in the last bin
C14_Witness ==
    /\ pc = "done"
    /\ \E i \in 0..18 : hist.D[i] > 1 /\ 0 < hist.N[i] /\ hist.N[i] < hist.D[i]
    /\ \E i \in 0..19 : hist.D[i] = 0
    /\ hist.D[19] > 0

-----------------------------------------------------------------------------
(* C20: the completeness table *)

\* the rows of the table FakeFlares wrote in this run, oldest first
RowsOfRun ==
    [j \in 1..(IF dofake THEN seg ELSE 0) |->
        outfile[Len(outfile) - (IF dofake THEN seg ELSE 0) + j]]

\* C20: the table is append-only: it holds one row per call of FakeFlares, in
\* call order, after the rows it held before, and no call changes a row an
\* earlier call wrote.
C20_TableIsAppendOnly ==
    /\ [](/\ Len(outfile) >= (IF dofake THEN seg ELSE 0)
          /\ Len(outfile) - (IF dofake THEN seg ELSE 0) \in {0, 1}
          /\ \A j \in 1..Len(RowsOfRun) :
                /\ RowsOfRun[j].ed68_i = seg_ed[j][1]
                /\ RowsOfRun[j].ed90_i = seg_ed[j][2]
                /\ RowsOfRun[j].min_time = time[dl[j]]
                /\ RowsOfRun[j].max_time = time[dr[j] - 1])
    /\ [][/\ Len(outfile') \in {Len(outfile), Len(outfile) + 1}
          /\ \A j \in 1..Len(outfile) : outfile'[j] = outfile[j]
          /\ (Len(outfile') = Len(outfile) + 1) <=> (dofake /\ seg' = seg + 1)]_vars

\* two calls on a table that held a row before
C20_Witness ==
    /\ dofake
    /\ seg = 2
    /\ Len(outfile) = 3
    /\ outfile[1] \in OldRows
    /\ outfile[2] # outfile[3]

-----------------------------------------------------------------------------
(* C12, C13: FakeFlares *)

\* the index of the sample whose time is t0
SampleAt(t0) == CHOOSE i \in DOMAIN time : time[i] = t0

\* C12: the synthetic flare k is marked recovered exactly when a candidate of
\* the re-run detection spans its peak, time[istart[j]] <= t0_fake[k] <=
\* time[istop[j]] (its peak sample lies in istart[j]..istop[j]); without any
\* candidate no flare is marked.
C12_RecoveredIffInsideCandidate ==
    (pc = "done") =>
        /\ Len(rec_fake) = nfake
        /\ Len(istop) = Len(istart)
        /\ \A j \in 1..Len(istart) : istop[j] \in DOMAIN time
        /\ \A k \in 1..nfake :
              /\ rec_fake[k] \in {0, 1}
              /\ (rec_fake[k] = 1) <=>
                    \E j \in 1..Len(istart) :
                        /\ istart[j] <= SampleAt(t0_fake[k])
                        /\ SampleAt(t0_fake[k]) <= istop[j]
        /\ (Len(istart) = 0) => \A k \in 1..nfake : rec_fake[k] = 0

\* two flares, one recovered and one after the last candidate, not recovered
C12_Witness ==
    /\ pc = "done"
    /\ nfake = 2
    /\ Len(istart) > 0
    /\ rec_fake[1] = 1
    /\ rec_fake[2] = 0
    /\ SampleAt(t0_fake[2]) > istop[Len(istop)]

\* C13: every accepted peak time is a sample time of the segment and lies in
\* no known candidate window.
C13_PeakOutsideKnownCandidates ==
    /\ Len(known.tstop) = Len(known.tstart)
    /\ \A k \in 1..Len(t0_fake) :
          /\ \E i \in DOMAIN time : time[i] = t0_fake[k]
          /\ \A j \in 1..Len(known.tstart) :
                ~(known.tstart[j] <= t0_fake[k] /\ t0_fake[k] <= known.tstop[j])

\* peaks accepted right before and right after a known candidate
C13_Witness ==
    /\ Len(known.tstart) > 0
    /\ Len(t0_fake) = 2
    /\ SampleAt(t0_fake[1]) = SampleAt(known.tstart[1]) - 1
    /\ SampleAt(t0_fake[2]) = SampleAt(known.tstop[1]) + 1

-----------------------------------------------------------------------------
(* C16 *)

\* C16: segments are independent in RunLC: for a fixed seed, two light
\* curves that agree on a segment give the same candidate ranges and the
\* same completeness result (ed68, ed90) for it, whatever segments come
\* before it and however many draws their processing consumed.
C16_SegmentsAreIndependent ==
    \A i \in 1..Len(res[1]), j \in 1..Len(res[2]) :
        curve[1][i] = curve[2][j] /\ res[1][i].ok /\ res[2][j].ok
            => /\ res[1][i].istart = res[2][j].istart
               /\ res[1][i].istop = res[2][j].istop
               /\ res[1][i].ed68 = res[2][j].ed68
               /\ res[1][i].ed90 = res[2][j].ed90

-----------------------------------------------------------------------------
(* C19 *)

\* C19: every candidate is characterized from the arrays of its own segment
\* only: the event window, the continuum samples and the model values under
\* the median that normalizes amplitude and equivalent duration all lie in
\* the segment of the candidate, so that no field changes with the samples or
\* model values of other segments.
C19_CharacterizedFromOwnSegment ==
    \A k \in 1..Len(reads) :
        LET own == dl[SegmentOf(istart[k])]..(dr[SegmentOf(istart[k])] - 1)
        IN  /\ reads[k].flare \subseteq own
            /\ reads[k].cont \subseteq own
            /\ reads[k].median \subseteq own

-----------------------------------------------------------------------------
(* C21 *)

\* the value FlareStats computed for the quantity a name of the header
\* stands for
Named(nm) ==
    LET tstart == At(time, fs.istart)
        tstop  == At(time, fs.istop)
    IN  CASE nm = "t_start" -> Num(tstart)
          [] nm = "t_stop" -> Num(tstop)
          [] nm = "duration" -> Num(tstop - tstart)
          [] nm = "t_peak_aflare1" -> fs.popt1[1]
          [] nm = "t_FWHM_aflare1" -> fs.popt1[2]
          [] nm = "amplitude_aflare1" -> fs.popt1[3]
          [] OTHER -> Measured(nm, fs.istart, fs.istop, fs.contindx, fs.cpoly)

\* the row RunLC writes for the tuple FlareStats returned
WrittenRow == DictZip(RunLCHeader, fs.params \o <<"ed68[i]", "ed90[i]">>)

\* C21: the header of FlareStats has one name per value of the returned
\* tuple, in the same order, 15 each, all different: the row RunLC writes has
\* 17 columns, every name of the header is paired with the value computed
\* for it, and ED68i and ED90i with the two thresholds.
C21_HeaderMatchesParams ==
    pc = "done" =>
        /\ Len(Header) = 15
        /\ Len(fs.params) = 15
        /\ Cardinality(DOMAIN WrittenRow) = 17
        /\ \A i \in 1..15 : WrittenRow[Header[i]] = fs.params[i]
        /\ \A i \in 1..15 : WrittenRow[Header[i]] = Named(Header[i])
        /\ WrittenRow["ED68i"] = "ed68[i]"
        /\ WrittenRow["ED90i"] = "ed90[i]"

\* a tuple was returned whose start, stop and duration differ and whose
\* fitted parameters are the values of a converged fit
C21_Witness ==
    /\ pc = "done"
    /\ fit.outcome = "ok"
    /\ fs.params[1] # fs.params[2]
    /\ fs.params[1] # fs.params[6]
    /\ fs.params[2] # fs.params[6]
    /\ WrittenRow["t_stop"] = Num(At(time, fs.istop))

-----------------------------------------------------------------------------
(* C22 *)

\* a <= k * sigma for a = a2 / 2 >= 0, with the sigma FINDflare computed
AtMostSigma(a2, k) ==
    LET l == a2 * a2 * sig_i.den - k * k * (sig_i.v1 + sig_i.v2)
    IN  l <= 0 \/ l * l <= 4 * k * k * k * k * sig_i.v1 * sig_i.v2

\* a = k * sigma
EqualsSigma(a2, k) ==
    LET l == a2 * a2 * sig_i.den - k * k * (sig_i.v1 + sig_i.v2)
    IN  l >= 0 /\ l * l = 4 * k * k * k * k * sig_i.v1 * sig_i.v2

\* sample i of the doubled series r2 passes the three strict tests
ThreeTests(r2, i) ==
    /\ r2[i] > 0
    /\ ~sig_i.nan
    /\ ~AtMostSigma(Abs(r2[i]), N1)
    /\ ~AtMostSigma(Abs(r2[i] - 2 * error[i]), N2)

\* C22 as stated: sample i is flagged exactly when the three strict
\* inequalities hold for the array FINDflare is given: flux[i] > 0,
\* |flux[i]| / sigma > N1 and |flux[i] - error[i]| / sigma > N2.
C22_FlaggedIffThreeTestsOfInput ==
    pc = "tested" =>
        \A i \in DOMAIN flux :
            cindx[i] = (IF ThreeTests([j \in DOMAIN flux |-> 2 * flux[j]], i)
                        THEN 1 ELSE 0)

\* C22, amended: sample i is flagged exactly when the three strict
\* inequalities hold for the array FINDflare is given less its median,
\* r[i] = flux[i] - nanmedian(flux): r[i] > 0, |r[i]| / sigma > N1 and
\* |r[i] - error[i]| / sigma > N2; a sample failing any one of them, or
\* meeting one only with equality, is flagged 0.
C22_FlaggedIffThreeTests ==
    pc = "tested" =>
        /\ med_i = (IF Size(flux) = 0 THEN 0 ELSE Median2(flux))
        /\ \A i \in DOMAIN flux :
              LET r2 == [j \in DOMAIN flux |-> 2 * flux[j] - med_i]
              IN  /\ cindx[i] = (IF ThreeTests(r2, i) THEN 1 ELSE 0)
                  /\ (EqualsSigma(Abs(r2[i]), N1) => cindx[i] = 0)
                  /\ (EqualsSigma(Abs(r2[i] - 2 * error[i]), N2)
                        => cindx[i] = 0)

\* a sample was flagged while another, above the median, was not, one of
\* its two ratios being exactly the threshold and the other above it
C22_Witness ==
    /\ pc = "tested"
    /\ ~sig_i.nan
    /\ sig_i.v1 > 0
    /\ \E i \in DOMAIN flux : cindx[i] = 1
    /\ \E i \in DOMAIN flux :
          LET ca2 == 2 * flux[i] - med_i
          IN  /\ cindx[i] = 0
              /\ ca2 > 0
              /\ \/ /\ EqualsSigma(Abs(ca2), N1)
                    /\ ~AtMostSigma(Abs(ca2 - 2 * error[i]), N2)
                 \/ /\ ~AtMostSigma(Abs(ca2), N1)
                    /\ EqualsSigma(Abs(ca2 - 2 * error[i]), N2)

-----------------------------------------------------------------------------
(* C23 *)

\* C23: every (start, stop) pair FINDflare returns is sound:
\* 0 <= start <= stop <= len(flux) - 1, the range holds at least N3 samples
\* and every sample in start..stop passed the per-sample test.
C23_ReturnedPairsSound ==
    pc = "done" =>
        /\ Len(istart_i) = Len(istop_i)
        /\ \A k \in 1..Len(istart_i) :
              /\ 0 <= istart_i[k]
              /\ istart_i[k] <= istop_i[k]
              /\ istop_i[k] <= Size(cindx) - 1
              /\ istop_i[k] - istart_i[k] + 1 >= N3
              /\ \A i \in istart_i[k]..istop_i[k] : cindx[i] = 1

\* two pairs were returned for N3 = 3, the second for a run that goes on to
\* the last sample
C23_Witness ==
    /\ pc = "done"
    /\ N3 = 3
    /\ Len(istart_i) = 2
    /\ cindx[Size(cindx) - 1] = 1
    /\ istop_i[2] = Size(cindx) - 2

-----------------------------------------------------------------------------
(* C24 *)

\* the event a surviving candidate sample i was merged into: the last event
\* that starts at or before it
EventOf(i) == Max({k \in 1..Len(istart) : istart[k] <= i})

\* the surviving candidate samples merged into event k
Merged(k) == {cand1[p] : p \in {q \in 1..Len(cand1) : EventOf(cand1[q]) = k}}

\* every event starts at the smallest of its samples and stops at the
\* largest, one further when it has a single sample (lines 836-838)
EnvelopeOfMerged ==
    /\ Len(istart) = Len(istop)
    /\ (Len(cand1) > 0 => Len(istart) > 0 /\ istart[1] = cand1[1])
    /\ \A k \in 1..Len(istart) :
          /\ Merged(k) # {}
          /\ istart[k] = Min(Merged(k))
          /\ istop[k] = IF Cardinality(Merged(k)) = 1 THEN Max(Merged(k)) + 1
                        ELSE Max(Merged(k))

\* C24 as stated: two consecutive surviving candidate samples are merged
\* into the same event exactly when their index difference is less than
\* minsep, and each event's start and stop are the minimum and the maximum
\* index of the samples merged into it.
C24_MergedWhenCloserThanMinsep ==
    pc = "done" =>
        /\ EnvelopeOfMerged
        /\ \A p \in 1..(Len(cand1) - 1) :
              (EventOf(cand1[p]) = EventOf(cand1[p + 1]))
                  <=> (cand1[p + 1] - cand1[p] < minsep)

\* C24, amended: two consecutive surviving candidate samples are merged into
\* the same event exactly when their index difference is at most minsep (a
\* new event begins where it is greater than minsep), and each event's start
\* and stop are the minimum and the maximum index of the samples merged into
\* it, the stop of a single-sample event being moved one further afterwards.
C24_MergedWhenAtMostMinsep ==
    pc = "done" =>
        /\ EnvelopeOfMerged
        /\ \A p \in 1..(Len(cand1) - 1) :
              (EventOf(cand1[p]) = EventOf(cand1[p + 1]))
                  <=> (cand1[p + 1] - cand1[p] <= minsep)

\* two surviving samples exactly minsep >= 2 apart were merged into one event
C24_Witness ==
    /\ pc = "done"
    /\ minsep >= 2
    /\ \E p \in 1..(Len(cand1) - 1) :
          /\ cand1[p + 1] - cand1[p] = minsep
          /\ EventOf(cand1[p]) = EventOf(cand1[p + 1])
          /\ istart[EventOf(cand1[p])] = cand1[p]
          /\ istop[EventOf(cand1[p])] = cand1[p + 1]

-----------------------------------------------------------------------------
(* C25 *)

\* bit b (a power of two) is set in the non-negative integer f
BitSet(f, b) == (f \div b) % 2 = 1

\* C25: FlagCuts with the default bad flags returns, in ascending order,
\* exactly the indices whose quality flag has none of the bits 16, 128 and
\* 2048 set, whatever other bits are set.
C25_GoodHasNoBadBit ==
    pc = "done" =>
        /\ \A p \in 1..(Len(good) - 1) : good[p] < good[p + 1]
        /\ {good[p] : p \in 1..Len(good)}
              = {i \in DOMAIN flags :
                    /\ ~BitSet(flags[i], 16)
                    /\ ~BitSet(flags[i], 128)
                    /\ ~BitSet(flags[i], 2048)}

\* of two flags with other bits set, the one with bit 2048 was left out and
\* the other returned
C25_Witness ==
    /\ pc = "done"
    /\ Size(flags) = 2
    /\ flags[0] = 2048 + 32 + 1
    /\ flags[1] = 4096 + 32
    /\ good = <<1>>

-----------------------------------------------------------------------------
(* C26 *)

\* C26: the retrieval loop of GetLCdb is bounded: it makes at most 10 query
\* attempts and it ends, also when no attempt returns a sensible light
\* curve.
C26_RetrievalLoopBounded ==
    /\ [](ntry <= 10)
    /\ <>(pc \in {"done", "IndexError"})

\* the loop was left after an attempt answered with fewer than 100 rows
C26_Witness ==
    /\ pc = "done"
    /\ ntry = 1
    /\ data > 0
    /\ data < 100

-----------------------------------------------------------------------------
(* C27 *)

\* C27: for every segment, one shorter than 2 * gapwindow included, the
\* edge exclusion of MultiFind completes without error and leaves exactly
\* the candidate samples whose time is at least gapwindow away from both the
\* first and the last sample time.
C27_EdgeExclusionCompletes ==
    pc # "call" =>
        /\ pc = "done"
        /\ \A p \in 1..(Len(cand1) - 1) : cand1[p] < cand1[p + 1]
        /\ {cand1[p] : p \in 1..Len(cand1)}
              = {cand0[p] : p \in {q \in 1..Len(cand0) : ~NearEdge(cand0[q])}}

-----------------------------------------------------------------------------
(* C28 *)

\* C28: every candidate MultiFind returns has valid, non-degenerate indices
\* of the segment, 0 <= istart < istop <= len(time) - 1; a candidate of a
\* single sample is returned with its stop exactly one sample further, and
\* that stop still is a sample of the segment.
C28_IndicesValidNonDegenerate ==
    pc = "done" =>
        /\ Len(istart) = Len(istop)
        /\ \A k \in 1..Len(istart) :
              /\ 0 <= istart[k]
              /\ istart[k] < istop[k]
              /\ istop[k] <= Size(time) - 1
              /\ (Cardinality(Merged(k)) = 1 =>
                    /\ istop[k] = istart[k] + 1
                    /\ istop[k] \in DOMAIN time)

\* a candidate of the single sample before the last was returned with the
\* last sample of the segment as its stop
C28_Witness ==
    /\ pc = "done"
    /\ \E k \in 1..Len(istart) :
          /\ Cardinality(Merged(k)) = 1
          /\ istart[k] = Size(time) - 2
          /\ istop[k] = Size(time) - 1

-----------------------------------------------------------------------------
(* C29 *)

\* the samples of the segment whose time is inside a known window
Rejected == {i \in DOMAIN time : InsideKnown(time[i], known)}

\* C29: the redraw loop of FakeFlares ends for each of the nfake synthetic
\* flares: for every set of known windows RunLC passes, some sample time of
\* the segment is outside all of them, and under a fair choice over the
\* sample times all nfake peak times are eventually drawn
C29_RedrawLoopTerminates ==
    /\ [](pc = "draw" => Rejected # DOMAIN time)
    /\ <>(Len(t0_fake) = nfake)

\* two peak times were accepted in a segment where the known windows leave
\* only the first and the last sample to draw from
C29_Witness ==
    /\ pc = "draw"
    /\ dofake
    /\ nfake = 2
    /\ Len(t0_fake) = nfake
    /\ Len(known.tstart) > 0
    /\ Size(time) = MaxFakeSeg
    /\ Rejected = DOMAIN time \ {0, Size(time) - 1}

-----------------------------------------------------------------------------
(* C30 *)

\* the value -99 of a threshold, in the unit the thresholds are held in
Sentinel == EDUnit * NeverReached

\* C30: for every completeness curve the two thresholds are consistent:
\* whenever ed90 is not the sentinel -99, ed68 is not the sentinel either and
\* ed68 <= ed90
C30_ThresholdsConsistent ==
    (pc = "done" /\ ed90_i # Sentinel) =>
        (ed68_i # Sentinel /\ ed68_i <= ed90_i)

\* a curve that reaches 68% at a smaller equivalent duration than 90%
C30_Witness ==
    /\ pc = "done"
    /\ hist # <<>>
    /\ ed90_i # Sentinel
    /\ ed68_i # Sentinel
    /\ ed68_i < ed90_i

=============================================================================
